---------------------------- MODULE Spec2Model ----------------------------
(***************************************************************************)
(* Model of the catalog expansion, storage-path planning and dispatch      *)
(* engine of tw_trademarket_info:                                          *)
(*   src/src/registry/catalog.py, src/src/registry/storage.py,             *)
(*   src/src/sources/dispatcher.py.                                        *)
(*                                                                         *)
(* Python strings are TLA+ strings.  Every other Python value is a record  *)
(* [k, s, items]: k is the Python type, s the text str() gives for it (the *)
(* string itself for a str), items the ordered entries of a dict or list.  *)
(***************************************************************************)
EXTENDS Integers, Sequences, FiniteSets, TLC

VARIABLES
    pc,              \* execute_entry: the stage the call is at
    entry,           \* execute_entry: the CatalogEntry being executed
    params,          \* execute_entry: params, the caller's mapping object
    enriched,        \* execute_entry: enriched (dispatcher.py:69)
    request_config,  \* execute_entry: request_config (dispatcher.py:70)
    sent,            \* the calls the Transport received, in order
    response,        \* execute_entry: response (dispatcher.py:84)
    payload,         \* execute_entry: payload (dispatcher.py:86-103)
    envelope,        \* the mapping execute_entry returned, or NotReturned
    trace,           \* the stages that ran, in order
    call,            \* a direct call of one function: its arguments
    ret,             \* ... and what it returned, or NotCalled
    document,        \* the catalog document load_catalog reads
    catalog,         \* the Catalog load_catalog built, with what it shares
    expansions       \* the expand calls made on the catalog, with results

vars == <<pc, entry, params, enriched, request_config, sent, response,
          payload, envelope, trace, call, ret, document, catalog, expansions>>

catalog_vars == <<document, catalog, expansions>>

dispatch_vars == <<pc, entry, params, enriched, request_config, sent,
                   response, payload, envelope, trace>>

-----------------------------------------------------------------------------
(* Strings: str methods used by the code.                                  *)

\* s[i-1:i]: one character, "" past the end
CharAt(s, i) == IF 1 <= i /\ i <= Len(s) THEN SubSeq(s, i, i) ELSE ""

\* s[i-1:].startswith(t)
StartsWithAt(s, i, t) ==
    /\ i + Len(t) - 1 <= Len(s)
    /\ SubSeq(s, i, i + Len(t) - 1) = t

\* s.endswith(t)
EndsWith(s, t) ==
    /\ Len(t) <= Len(s)
    /\ SubSeq(s, Len(s) - Len(t) + 1, Len(s)) = t

\* s.find(t, from): the first position >= from where t occurs, 0 when none
RECURSIVE Find(_, _, _)
Find(s, t, from) ==
    IF from + Len(t) - 1 > Len(s) THEN 0
    ELSE IF StartsWithAt(s, from, t) THEN from
    ELSE Find(s, t, from + 1)

\* t in s
Contains(s, t) == Find(s, t, 1) # 0

\* s.replace(old, new) for a non-empty old: every non-overlapping occurrence,
\* left to right
RECURSIVE ReplaceFrom(_, _, _, _)
ReplaceFrom(s, old, new, from) ==
    LET i == Find(s, old, from)
    IN  IF i = 0 THEN SubSeq(s, from, Len(s))
        ELSE SubSeq(s, from, i - 1) \o new
                 \o ReplaceFrom(s, old, new, i + Len(old))

Replace(s, old, new) == ReplaceFrom(s, old, new, 1)

\* s.split(sep) for a one-character sep: "".split(sep) is [""]
RECURSIVE SplitFrom(_, _, _)
SplitFrom(s, sep, from) ==
    LET i == Find(s, sep, from)
    IN  IF i = 0 THEN <<SubSeq(s, from, Len(s))>>
        ELSE <<SubSeq(s, from, i - 1)>> \o SplitFrom(s, sep, i + 1)

Split(s, sep) == SplitFrom(s, sep, 1)

\* sep.join(parts)
RECURSIVE Join(_, _)
Join(parts, sep) ==
    IF parts = <<>> THEN ""
    ELSE IF Len(parts) = 1 THEN parts[1]
    ELSE parts[1] \o sep \o Join(Tail(parts), sep)

\* s.strip(): leading and trailing blanks removed
RECURSIVE LStrip(_)
LStrip(s) ==
    IF Len(s) > 0 /\ CharAt(s, 1) = " " THEN LStrip(Tail(s)) ELSE s

RECURSIVE RStrip(_)
RStrip(s) ==
    IF Len(s) > 0 /\ CharAt(s, Len(s)) = " "
    THEN RStrip(SubSeq(s, 1, Len(s) - 1)) ELSE s

Strip(s) == LStrip(RStrip(s))

UpperCase == "ABCDEFGHIJKLMNOPQRSTUVWXYZ"
LowerCase == "abcdefghijklmnopqrstuvwxyz"

\* the character c mapped from alphabet `from` to alphabet `to`
MapChar(c, from, to) ==
    LET i == Find(from, c, 1)
    IN  IF i = 0 THEN c ELSE CharAt(to, i)

RECURSIVE MapChars(_, _, _)
MapChars(s, from, to) ==
    IF s = "" THEN ""
    ELSE MapChar(CharAt(s, 1), from, to) \o MapChars(Tail(s), from, to)

\* s.lower(), s.upper()
Lower(s) == MapChars(s, UpperCase, LowerCase)
Upper(s) == MapChars(s, LowerCase, UpperCase)

-----------------------------------------------------------------------------
(* Python values.                                                          *)

Str(s)  == [k |-> "str", s |-> s, items |-> <<>>]
Num(s)  == [k |-> "int", s |-> s, items |-> <<>>]
None    == [k |-> "NoneType", s |-> "None", items |-> <<>>]
\* a dict: items are its [key, val] entries in insertion order
Dict(items) == [k |-> "dict", s |-> "", items |-> items]
\* a list: items are its entries, each under the key ""
List(vals) ==
    [k |-> "list", s |-> "",
     items |-> [i \in 1..Len(vals) |-> [key |-> "", val |-> vals[i]]]]
KV(key, val) == [key |-> key, val |-> val]

IsStr(v)  == v.k = "str"
IsDict(v) == v.k = "dict"
IsList(v) == v.k = "list"
IsNone(v) == v.k = "NoneType"

\* bool(v)
Truthy(v) ==
    CASE v.k = "str"      -> v.s # ""
      [] v.k = "int"      -> v.s # "0"
      [] v.k = "NoneType" -> FALSE
      [] v.k = "dict"     -> v.items # <<>>
      [] v.k = "list"     -> v.items # <<>>
      [] OTHER            -> TRUE

\* the keys of a dict
Keys(d) == {d.items[i].key : i \in 1..Len(d.items)}

\* key in d
Has(d, key) == key \in Keys(d)

\* d.get(key, default)
GetOr(d, key, default) ==
    IF Has(d, key)
    THEN d.items[CHOOSE i \in 1..Len(d.items) : d.items[i].key = key].val
    ELSE default

\* d.get(key)
Get(d, key) == GetOr(d, key, None)

\* d[key] = val: an existing key keeps its place, a new one goes last
DictSet(d, key, val) ==
    IF Has(d, key)
    THEN Dict([i \in 1..Len(d.items) |->
                  IF d.items[i].key = key THEN KV(key, val) ELSE d.items[i]])
    ELSE Dict(Append(d.items, KV(key, val)))

\* d.setdefault(key, val)
SetDefault(d, key, val) == IF Has(d, key) THEN d ELSE DictSet(d, key, val)

\* d.update(other)
RECURSIVE DictUpdate(_, _)
DictUpdate(d, other) ==
    IF other.items = <<>> THEN d
    ELSE DictUpdate(DictSet(d, other.items[1].key, other.items[1].val),
                    Dict(Tail(other.items)))

\* the same mapping: the same keys with the same values (dict.__eq__)
SameDict(a, b) ==
    /\ Keys(a) = Keys(b)
    /\ \A key \in Keys(a) : Get(a, key) = Get(b, key)

-----------------------------------------------------------------------------
(* registry/catalog.py: _merge_dicts                                       *)

\* the mutant: the base value wins on a shared key
merge_dicts_base_wins(base, overrides) ==
    IF ~Truthy(base) /\ ~Truthy(overrides) THEN None
    ELSE LET merged0 == Dict(<<>>)
             merged1 == IF Truthy(overrides) THEN DictUpdate(merged0, overrides)
                        ELSE merged0
         IN  IF Truthy(base) THEN DictUpdate(merged1, base) ELSE merged1

merge_dicts(base, overrides) ==
    IF ~Truthy(base) /\ ~Truthy(overrides) THEN None
    ELSE LET merged0 == Dict(<<>>)
             merged1 == IF Truthy(base) THEN DictUpdate(merged0, base)
                        ELSE merged0
         IN  IF Truthy(overrides) THEN DictUpdate(merged1, overrides)
             ELSE merged1

-----------------------------------------------------------------------------
(* registry/catalog.py: substitute, _apply_template                        *)

\* str(v) of a scalar
StrOf(v) == v.s

\* the mutant: the bare key is taken for its placeholder
placeholder_token_bare(key) == key

\* placeholder = f"{{{key}}}"
placeholder_token(key) == "{" \o key \o "}"

\* the loop of substitute over params.items(), from entry i on
RECURSIVE substitute_loop(_, _, _)
substitute_loop(result, p, i) ==
    IF i > Len(p.items) THEN result
    ELSE LET token == placeholder_token(p.items[i].key)
         IN  substitute_loop(
                 IF Contains(result, token)
                 THEN Replace(result, token, StrOf(p.items[i].val))
                 ELSE result,
                 p, i + 1)

substitute(value, p) ==
    IF IsStr(value)
    THEN IF Has(p, value.s) THEN Get(p, value.s)
         ELSE Str(substitute_loop(value.s, p, 1))
    ELSE value

RECURSIVE apply_template(_, _)
apply_template(value, p) ==
    IF IsDict(value)
    THEN Dict([i \in 1..Len(value.items) |->
                  KV(value.items[i].key, apply_template(value.items[i].val, p))])
    ELSE IF IsList(value)
    THEN [value EXCEPT !.items =
             [i \in 1..Len(value.items) |->
                  KV("", apply_template(value.items[i].val, p))]]
    ELSE substitute(value, p)

-----------------------------------------------------------------------------
(* registry/catalog.py: _parser_from_response and the parser of expand     *)

\* the mutant: the MIME type is not lower-cased
mime_of_case_kept(candidate) == Strip(Split(candidate, ";")[1])

\* mime = candidate.split(";")[0].strip().lower()
mime_of(candidate) == Lower(Strip(Split(candidate, ";")[1]))

\* the loop over normalized.split("|"), from candidate i on
RECURSIVE parser_loop(_, _)
parser_loop(candidates, i) ==
    IF i > Len(candidates) THEN "json"
    ELSE LET mime == mime_of(candidates[i])
         IN  IF mime = "" THEN parser_loop(candidates, i + 1)
             ELSE IF mime \in {"application/json", "text/json",
                               "application/vnd.api+json"} THEN "json"
             ELSE IF mime \in {"text/csv", "application/csv",
                               "application/vnd.ms-excel"} THEN "csv"
             ELSE IF mime \in {"application/rss+xml", "application/xml",
                               "text/xml"} THEN "rss"
             ELSE IF mime \in {"text/html", "application/xhtml+xml"}
             THEN "html"
             ELSE parser_loop(candidates, i + 1)

parser_from_response(response_meta) ==
    IF ~Truthy(response_meta) THEN "json"
    ELSE LET content_type == Get(response_meta, "content_type")
         IN  IF ~Truthy(content_type) THEN "json"
             ELSE parser_loop(Split(StrOf(content_type), "|"), 1)

\* the mutant: the declared content type is asked first
expand_parser_inferred_first(raw) ==
    IF Truthy(Get(raw, "response"))
           /\ Truthy(Get(Get(raw, "response"), "content_type"))
    THEN Str(parser_from_response(Get(raw, "response")))
    ELSE IF Truthy(Get(raw, "parser")) THEN Get(raw, "parser")
    ELSE Str("json")

\* parser = self.raw.get("parser") or _parser_from_response(...)
expand_parser(raw) ==
    IF Truthy(Get(raw, "parser")) THEN Get(raw, "parser")
    ELSE Str(parser_from_response(Get(raw, "response")))

-----------------------------------------------------------------------------
(* datetime, as sources/dispatcher.py uses it.  A datetime value carries   *)
(* str() of it in s: "YYYY-MM-DD 00:00:00".                                *)

DigitChars == "0123456789"

IsDigit(c) == Len(c) = 1 /\ Contains(DigitChars, c)

\* int(s) of a string of digits
RECURSIVE ToInt(_)
ToInt(s) ==
    IF s = "" THEN 0
    ELSE 10 * ToInt(SubSeq(s, 1, Len(s) - 1))
             + (Find(DigitChars, CharAt(s, Len(s)), 1) - 1)

\* str(n) of a natural number
RECURSIVE ToStr(_)
ToStr(n) ==
    IF n < 10 THEN CharAt(DigitChars, n + 1)
    ELSE ToStr(n \div 10) \o CharAt(DigitChars, (n % 10) + 1)

\* f"{n:0<width>d}": zero-padded to at least width characters
RECURSIVE ZeroPad(_, _)
ZeroPad(s, width) == IF Len(s) >= width THEN s ELSE ZeroPad("0" \o s, width)

Fmt(n, width) == ZeroPad(ToStr(n), width)

IsLeap(y) == (y % 4 = 0 /\ y % 100 # 0) \/ y % 400 = 0

DaysInMonth(y, m) ==
    IF m = 2 THEN (IF IsLeap(y) THEN 29 ELSE 28)
    ELSE IF m \in {4, 6, 9, 11} THEN 30 ELSE 31

\* datetime(y, m, d)
DateTime(y, m, d) ==
    [k |-> "datetime",
     s |-> Fmt(y, 4) \o "-" \o Fmt(m, 2) \o "-" \o Fmt(d, 2) \o " 00:00:00",
     items |-> <<>>]

\* dt.year, dt.month, dt.day
YearOf(dt)  == ToInt(SubSeq(dt.s, 1, 4))
MonthOf(dt) == ToInt(SubSeq(dt.s, 6, 7))
DayOf(dt)   == ToInt(SubSeq(dt.s, 9, 10))

\* the lengths, in the order the pattern of %m tries them, of the months that
\* match at position i: 1[0-2] | 0[1-9] | [1-9]
MonthLens(s, i) ==
    LET c1 == CharAt(s, i)
        c2 == CharAt(s, i + 1)
    IN  (IF \/ (c1 = "1" /\ c2 \in {"0", "1", "2"})
            \/ (c1 = "0" /\ IsDigit(c2) /\ c2 # "0")
         THEN <<2>> ELSE <<>>)
        \o (IF IsDigit(c1) /\ c1 # "0" THEN <<1>> ELSE <<>>)

\* the same for %d: 3[0-1] | [1-2]\d | 0[1-9] | [1-9] | " "[1-9]
DayLens(s, i) ==
    LET c1 == CharAt(s, i)
        c2 == CharAt(s, i + 1)
    IN  (IF \/ (c1 = "3" /\ c2 \in {"0", "1"})
            \/ (c1 \in {"1", "2"} /\ IsDigit(c2))
            \/ (c1 = "0" /\ IsDigit(c2) /\ c2 # "0")
         THEN <<2>> ELSE <<>>)
        \o (IF IsDigit(c1) /\ c1 # "0" THEN <<1>> ELSE <<>>)
        \o (IF c1 = " " /\ IsDigit(c2) /\ c2 # "0" THEN <<2>> ELSE <<>>)

\* datetime.strptime(s, "%Y" sep "%m" sep "%d"): the datetime, or None for
\* the ValueError.  The pattern is matched from the start, the first match in
\* the order of its alternatives is taken, and it must end the string.
strptime(s, sep) ==
    LET yearOk == Len(s) >= 4 /\ \A i \in 1..4 : IsDigit(CharAt(s, i))
        pm == 5 + Len(sep)
        \* the month lengths after which the rest of the pattern matches
        fits == SelectSeq(MonthLens(s, pm),
                    LAMBDA ml : /\ StartsWithAt(s, pm + ml, sep)
                                /\ DayLens(s, pm + ml + Len(sep)) # <<>>)
    IN  IF ~yearOk \/ ~StartsWithAt(s, 5, sep) \/ fits = <<>> THEN None
        ELSE LET ml == Head(fits)
                 pd == pm + ml + Len(sep)
                 dl == Head(DayLens(s, pd))
                 y == ToInt(SubSeq(s, 1, 4))
                 m == ToInt(SubSeq(s, pm, pm + ml - 1))
                 d == ToInt(Strip(SubSeq(s, pd, pd + dl - 1)))
             IN  IF pd + dl - 1 # Len(s) THEN None
                 ELSE IF y < 1 \/ d > DaysInMonth(y, m) THEN None
                 ELSE DateTime(y, m, d)

\* dt.strftime("%Y"): the C library decides whether a year below 1000 is
\* zero-padded
strftime_Y(dt, padded) ==
    IF padded THEN Fmt(YearOf(dt), 4) ELSE ToStr(YearOf(dt))
strftime_m(dt) == Fmt(MonthOf(dt), 2)
strftime_d(dt) == Fmt(DayOf(dt), 2)

-----------------------------------------------------------------------------
(* sources/dispatcher.py: enrich_params, _coerce_date                      *)

\* DATE_FORMATS = ("%Y-%m-%d", "%Y/%m/%d", "%Y%m%d"), by their separators
DATE_FORMATS == <<"-", "/", "">>

\* the loop of _coerce_date over DATE_FORMATS, from format i on
RECURSIVE coerce_date_loop(_, _)
coerce_date_loop(value, i) ==
    IF i > Len(DATE_FORMATS) THEN None
    ELSE IF ~IsNone(strptime(value.s, DATE_FORMATS[i]))
    THEN strptime(value.s, DATE_FORMATS[i])
    ELSE coerce_date_loop(value, i + 1)

coerce_date(value) ==
    IF value.k = "datetime" THEN value
    ELSE IF IsStr(value) THEN coerce_date_loop(value, 1)
    ELSE None

\* the mutant: a derived key replaces what the caller supplied
set_default_overwrites(d, key, val) == DictSet(d, key, Str(val))

\* enriched.setdefault(key, val), val a str
set_default(d, key, val) == SetDefault(d, key, Str(val))

\* the setdefault calls of dispatcher.py:35-42
enrich_roc(mapping, dt) ==
    LET roc_year == YearOf(dt) - 1911
        yyy == Fmt(roc_year, 3)
        mm == Fmt(MonthOf(dt), 2)
        dd == Fmt(DayOf(dt), 2)
        e1 == set_default(mapping, "ROC_YEAR", yyy)
        e2 == set_default(e1, "ROC_YY", Fmt(roc_year, 2))
        e3 == set_default(e2, "YYY", yyy)
        e4 == set_default(e3, "YY", Fmt(roc_year, 2))
        e5 == set_default(e4, "YYYMM", yyy \o mm)
        e6 == set_default(e5, "YYY/MM", yyy \o "/" \o mm)
        e7 == set_default(e6, "YYYMMDD", yyy \o mm \o dd)
    IN  set_default(e7, "YYY/MM/DD", yyy \o "/" \o mm \o "/" \o dd)

\* the setdefault calls of dispatcher.py:27-32
enrich_gregorian(mapping, dt, padded) ==
    LET yyyy == strftime_Y(dt, padded)
        mm == strftime_m(dt)
        dd == strftime_d(dt)
        e1 == set_default(mapping, "YYYYMMDD", yyyy \o mm \o dd)
        e2 == set_default(e1, "YYYYMM", yyyy \o mm)
        e3 == set_default(e2, "YYYY", yyyy)
        e4 == set_default(e3, "MM", mm)
        e5 == set_default(e4, "DD", dd)
    IN  set_default(e5, "YYYY/MM/DD", yyyy \o "/" \o mm \o "/" \o dd)

\* the mutant: the ROC keys are also added for the year 1911
roc_applies_from_1911(dt) == YearOf(dt) - 1911 >= 0

\* roc_year = dt.year - 1911; if roc_year > 0
roc_applies(dt) == YearOf(dt) - 1911 > 0

\* enrich_params(params); padded: whether this build's %Y pads a year < 1000
enrich_params(p, padded) ==
    LET date_value == Get(p, "date")
        dt == coerce_date(date_value)
    IN  IF Truthy(date_value) /\ Truthy(dt)
        THEN LET gregorian == enrich_gregorian(p, dt, padded)
             IN  IF roc_applies(dt) THEN enrich_roc(gregorian, dt)
                 ELSE gregorian
        ELSE p

-----------------------------------------------------------------------------
(* pathlib.Path, as registry/storage.py uses it.  A Path value carries its *)
(* normal form in s: the parts joined by "/", "." for the empty path.      *)

\* the parts of a path string: empty and "." components are dropped
PathParts(s) == SelectSeq(Split(s, "/"), LAMBDA part : part # "" /\ part # ".")

\* the string is an absolute path
IsAbsolute(s) == StartsWithAt(s, 1, "/")

\* str() of the path with this root and these parts
PathStr(root, parts) ==
    IF root = "" /\ parts = <<>> THEN "." ELSE root \o Join(parts, "/")

PathV(s) == [k |-> "Path", s |-> s, items |-> <<>>]

\* Path(s)
Path(s) == PathV(PathStr(IF IsAbsolute(s) THEN "/" ELSE "", PathParts(s)))

\* Path()
EmptyPath == Path("")

\* path / segment, segment a str or a Path: an absolute segment replaces path
PathJoin(path, segment) ==
    IF IsAbsolute(segment.s) THEN Path(segment.s)
    ELSE PathV(PathStr(IF IsAbsolute(path.s) THEN "/" ELSE "",
                       PathParts(path.s) \o PathParts(segment.s)))

-----------------------------------------------------------------------------
(* registry/storage.py                                                     *)

\* _as_path(*segments): falsy segments are skipped
RECURSIVE as_path_loop(_, _)
as_path_loop(path, segments) ==
    IF segments = <<>> THEN path
    ELSE as_path_loop(IF ~Truthy(Head(segments)) THEN path
                      ELSE PathJoin(path, Head(segments)),
                      Tail(segments))

as_path(segments) == as_path_loop(EmptyPath, segments)

\* _placeholder(key)
placeholder(key) == "{" \o key \o "}"

\* the mutant: a key with no value falls back to its placeholder
segment_falls_back(key, as_placeholder, p) ==
    IF IsNone(key)
    THEN (IF ~as_placeholder THEN None ELSE Str(placeholder("symbol")))
    ELSE IF as_placeholder THEN Str(placeholder(key.s))
    ELSE IF IsNone(p) THEN None
    ELSE IF IsNone(Get(p, key.s)) THEN Str(placeholder(key.s))
    ELSE Str(StrOf(Get(p, key.s)))

\* StoragePlan._segment(key, placeholder, params)
segment(key, as_placeholder, p) ==
    IF IsNone(key)
    THEN (IF ~as_placeholder THEN None ELSE Str(placeholder("symbol")))
    ELSE IF as_placeholder THEN Str(placeholder(key.s))
    ELSE IF IsNone(p) THEN None
    ELSE IF IsNone(Get(p, key.s)) THEN None
    ELSE Str(StrOf(Get(p, key.s)))

\* for segment in dataset_segments: base /= segment
RECURSIVE join_all(_, _)
join_all(base, segments) ==
    IF segments = <<>> THEN base
    ELSE join_all(PathJoin(base, Str(Head(segments))), Tail(segments))

\* self.instrument_type or "derivative"
instrument_type_or_default(plan) ==
    IF Truthy(plan.instrument_type) THEN plan.instrument_type
    ELSE Str("derivative")

\* the mutant: the segments in the order symbol, underlying, "derivatives",
\* instrument_type
derivative_base_symbol_first(plan, base, underlying_segment, symbol_segment) ==
    as_path(<<base, symbol_segment, underlying_segment, Str("derivatives"),
              instrument_type_or_default(plan)>>)

\* storage.py:90
derivative_base(plan, base, underlying_segment, symbol_segment) ==
    as_path(<<base, underlying_segment, Str("derivatives"),
              instrument_type_or_default(plan), symbol_segment>>)

\* the mutant: no "spot" segment
spot_base_no_spot(base, symbol_segment) == as_path(<<base, symbol_segment>>)

\* storage.py:92
spot_base(base, symbol_segment) ==
    as_path(<<base, symbol_segment, Str("spot")>>)

\* StoragePlan._build_path(source_id, placeholder=, params=): a Path or None
build_path(plan, source_id, as_placeholder, p) ==
    LET dataset_segments ==
            SelectSeq(Split(plan.dataset, "/"), LAMBDA part : part # "")
        base == Path(source_id)
        symbol_segment == segment(plan.parameter_key, as_placeholder, p)
        underlying_segment == segment(plan.derivative_key, as_placeholder, p)
    IN  IF plan.scope = "instrument"
        THEN IF IsNone(symbol_segment) THEN None
             ELSE IF Truthy(plan.derivative_key)
             THEN IF IsNone(underlying_segment) THEN None
                  ELSE join_all(derivative_base(plan, base, underlying_segment,
                                                symbol_segment),
                                dataset_segments)
             ELSE join_all(spot_base(base, symbol_segment), dataset_segments)
        ELSE IF plan.scope = "market"
        THEN join_all(as_path(<<base, Str("market")>>), dataset_segments)
        ELSE IF plan.scope = "source"
        THEN join_all(Path(source_id), dataset_segments)
        ELSE join_all(as_path(<<base, Str(plan.scope)>>), dataset_segments)

\* StoragePlan.template(source_id)
template(plan, source_id) ==
    Str(StrOf(build_path(plan, source_id, TRUE, None)))

\* StoragePlan.resolve(source_id, params)
resolve(plan, source_id, p) ==
    LET resolved == build_path(plan, source_id, FALSE, p)
    IN  IF ~IsNone(resolved) THEN Str(StrOf(resolved)) ELSE None

\* the group of StoragePlan.render
group(plan) ==
    IF Truthy(plan.derivative_key) THEN "derivatives"
    ELSE IF plan.scope = "market" THEN "market"
    ELSE IF plan.scope = "source" THEN "source"
    ELSE "spot"

\* the mutant: the template field holds the resolved path when there is one
render_template_resolved(plan, source_id, p) ==
    Dict(<<KV("scope", Str(plan.scope)),
           KV("dataset", Str(plan.dataset)),
           KV("group", Str(group(plan))),
           KV("instrument_type", plan.instrument_type),
           KV("frequency", plan.frequency),
           KV("timezone", plan.timezone),
           KV("template", IF IsNone(resolve(plan, source_id, p))
                          THEN template(plan, source_id)
                          ELSE resolve(plan, source_id, p)),
           KV("path", resolve(plan, source_id, p)),
           KV("parameter_key", plan.parameter_key),
           KV("derivative_key", plan.derivative_key),
           KV("notes", plan.notes)>>)

\* StoragePlan.render(source_id, params)
render(plan, source_id, p) ==
    Dict(<<KV("scope", Str(plan.scope)),
           KV("dataset", Str(plan.dataset)),
           KV("group", Str(group(plan))),
           KV("instrument_type", plan.instrument_type),
           KV("frequency", plan.frequency),
           KV("timezone", plan.timezone),
           KV("template", template(plan, source_id)),
           KV("path", resolve(plan, source_id, p)),
           KV("parameter_key", plan.parameter_key),
           KV("derivative_key", plan.derivative_key),
           KV("notes", plan.notes)>>)

\* StoragePlan(scope=, dataset=, instrument_type=, parameter_key=,
\* derivative_key=, frequency=, timezone=, notes=)
StoragePlan(scope, dataset, instrument_type, parameter_key, derivative_key, frequency, timezone, notes) ==
    [scope |-> scope, dataset |-> dataset, instrument_type |-> instrument_type,
     parameter_key |-> parameter_key, derivative_key |-> derivative_key,
     frequency |-> frequency, timezone |-> timezone, notes |-> notes]

-----------------------------------------------------------------------------
(* registry/catalog.py: Source, CatalogEntry                               *)

\* Source.to_dict()
source_to_dict(source) ==
    Dict(<<KV("id", Str(source.id)),
           KV("name", Str(source.name)),
           KV("base_urls", source.base_urls),
           KV("discovery", IF Truthy(source.discovery) THEN source.discovery
                           ELSE None)>>)

\* CatalogEntry.name
entry_name(e) == GetOr(e.raw, "name", Str(e.id))

\* DEFAULT_STORAGE_MAP: the plans of the entry ids the model uses
DEFAULT_STORAGE_MAP ==
    [id \in {"twse.exchangeReport.STOCK_DAY",
             "twse.exchangeReport.STOCK_DAY_ALL"} |->
        IF id = "twse.exchangeReport.STOCK_DAY"
        THEN StoragePlan("instrument", "ohlcv/daily", Str("equity"),
                         Str("stock_code"), None, Str("1d"),
                         Str("Asia/Taipei"), Str("notes"))
        ELSE StoragePlan("market", "equities/ohlcv/daily/full", None, None,
                         None, Str("1d"), Str("Asia/Taipei"), None)]

\* CatalogEntry.storage_plan is not None
has_storage_plan(e) == e.id \in DOMAIN DEFAULT_STORAGE_MAP

\* the mutant: a missing url_template does not stop expand
expand_raises_never(e) == FALSE

\* expand raises: AttributeError for a method that is no str (.upper()),
\* ValueError for a missing or empty url_template
expand_raises(e) ==
    \/ ~IsStr(GetOr(e.raw, "method", Str("GET")))
    \/ ~Truthy(Get(e.raw, "url_template"))

\* the mutant: a global header wins over the entry's
merge_unpacked_defaults_win(a, b) == DictUpdate(b, a)

\* {**a, **b}
merge_unpacked(a, b) == DictUpdate(DictUpdate(Dict(<<>>), a), b)

\* the mutant: the part is put in the descriptor whatever it is
with_part_always(request, key, value) == DictSet(request, key, value)

\* if value: request[key] = value
with_part(request, key, value) ==
    IF Truthy(value) THEN DictSet(request, key, value) ELSE request

\* if timeout_seconds is not None: request["timeout_seconds"] = ...
with_timeout(request, timeout_seconds) ==
    IF ~IsNone(timeout_seconds)
    THEN DictSet(request, "timeout_seconds", timeout_seconds)
    ELSE request

\* if storage_plan is not None: request["storage"] = storage_plan.render(...)
with_storage(request, e, context) ==
    IF has_storage_plan(e)
    THEN DictSet(request, "storage",
                 render(DEFAULT_STORAGE_MAP[e.id], e.source.id, context))
    ELSE request

\* CatalogEntry.expand(params), when it does not raise
expand(e, p) ==
    LET context == p
        http_defaults == GetOr(e.global_defaults, "http", Dict(<<>>))
        scheduling_defaults ==
            GetOr(e.global_defaults, "scheduling", Dict(<<>>))
        method == Str(Upper(GetOr(e.raw, "method", Str("GET")).s))
        url_template == Get(e.raw, "url_template")
        expanded_url == apply_template(url_template, context)
        query_template ==
            IF Truthy(Get(e.raw, "query_template"))
            THEN Get(e.raw, "query_template") ELSE Dict(<<>>)
        expanded_query == apply_template(query_template, context)
        payload_template ==
            IF Truthy(Get(e.raw, "payload_template"))
            THEN Get(e.raw, "payload_template") ELSE Dict(<<>>)
        expanded_payload == apply_template(payload_template, context)
        header_template ==
            IF Truthy(Get(e.raw, "headers"))
            THEN Get(e.raw, "headers") ELSE Dict(<<>>)
        endpoint_headers == apply_template(header_template, context)
        headers == merge_unpacked(GetOr(http_defaults, "headers", Dict(<<>>)),
                                  endpoint_headers)
        timeout_seconds ==
            GetOr(e.raw, "timeout_seconds", Get(http_defaults, "timeout_seconds"))
        retries == merge_dicts(Get(http_defaults, "retries"),
                               Get(e.raw, "retries"))
        rate_limit == merge_dicts(Get(http_defaults, "rate_limit"),
                                  Get(e.raw, "rate_limit"))
        scheduling == merge_dicts(scheduling_defaults,
                                  Get(e.raw, "scheduling"))
        parser == expand_parser(e.raw)
        request ==
            Dict(<<KV("id", Str(e.id)),
                   KV("name", entry_name(e)),
                   KV("source", source_to_dict(e.source)),
                   KV("method", method),
                   KV("endpoint", expanded_url),
                   KV("parser", parser),
                   KV("response", Get(e.raw, "response")),
                   KV("rate_limit", rate_limit),
                   KV("retries", retries),
                   KV("scheduling", scheduling)>>)
        r1 == with_part(request, "query", expanded_query)
        r2 == with_part(r1, "payload", expanded_payload)
        r3 == with_part(r2, "headers", headers)
        r4 == with_timeout(r3, timeout_seconds)
    IN  with_storage(r4, e, context)

-----------------------------------------------------------------------------
(* registry/catalog.py: load_catalog, Catalog.get_entry.  An exception is  *)
(* the name of its class; "" stands for no exception.                      *)

\* what a call gave: the exception it raised, or the value it returned
Outcome(raised, value) == [raised |-> raised, value |-> value]

\* the entries a for loop takes from v, or that v is not iterable
Iterable(v) == v.k \in {"list", "dict", "str"}
IterItems(v) ==
    CASE v.k = "list" -> [i \in 1..Len(v.items) |-> v.items[i].val]
      [] v.k = "dict" -> [i \in 1..Len(v.items) |-> Str(v.items[i].key)]
      [] v.k = "str"  -> [i \in 1..Len(v.s) |-> Str(CharAt(v.s, i))]
      [] OTHER        -> <<>>

\* x["id"] for an x taken from the document
subscript_id_raises(x) ==
    IF ~IsDict(x) THEN "TypeError"
    ELSE IF ~Has(x, "id") THEN "KeyError"
    ELSE ""

\* the first exception the loop over the endpoints of one source raises
RECURSIVE endpoints_raise(_, _)
endpoints_raise(endpoints, i) ==
    IF i > Len(endpoints) THEN ""
    ELSE IF subscript_id_raises(endpoints[i]) # ""
    THEN subscript_id_raises(endpoints[i])
    ELSE endpoints_raise(endpoints, i + 1)

\* the first exception the loop over the sources raises (catalog.py:147-164)
RECURSIVE sources_raise(_, _)
sources_raise(raw_sources, i) ==
    IF i > Len(raw_sources) THEN ""
    ELSE LET raw_source == raw_sources[i]
             endpoints == GetOr(raw_source, "endpoints", List(<<>>))
         IN  IF subscript_id_raises(raw_source) # ""
             THEN subscript_id_raises(raw_source)
             ELSE IF ~Iterable(endpoints) THEN "TypeError"
             ELSE IF endpoints_raise(IterItems(endpoints), 1) # ""
             THEN endpoints_raise(IterItems(endpoints), 1)
             ELSE sources_raise(raw_sources, i + 1)

\* the exception load_catalog raises for the document, "" when it returns
load_raises(doc) ==
    IF doc.k = "unparseable" THEN "JSONDecodeError"
    ELSE IF ~IsDict(doc) THEN "AttributeError"
    ELSE LET raw_sources == GetOr(doc, "sources", List(<<>>))
         IN  IF ~Iterable(raw_sources) THEN "TypeError"
             ELSE sources_raise(IterItems(raw_sources), 1)

\* Source(id=, name=, base_urls=, discovery=, raw=) of catalog.py:149-155
source_of(raw_source) ==
    [id |-> Get(raw_source, "id").s,
     name |-> GetOr(raw_source, "name", Get(raw_source, "id")).s,
     base_urls |-> GetOr(raw_source, "base_urls", List(<<>>)),
     discovery |-> Get(raw_source, "discovery")]

\* entries[entry.id] = CatalogEntry(...) for the endpoints of one source from
\* the i-th on; global_defaults is the one object defaults, kept in the
\* Catalog value
RECURSIVE load_endpoints(_, _, _, _)
load_endpoints(entries, source, endpoints, i) ==
    IF i > Len(endpoints) THEN entries
    ELSE load_endpoints(
             DictSet(entries, Get(endpoints[i], "id").s,
                     [id |-> Get(endpoints[i], "id").s,
                      raw |-> endpoints[i],
                      source |-> source]),
             source, endpoints, i + 1)

\* the loop of catalog.py:147-164 from the i-th source on
RECURSIVE load_sources(_, _, _, _)
load_sources(sources, entries, raw_sources, i) ==
    IF i > Len(raw_sources) THEN [sources |-> sources, entries |-> entries]
    ELSE LET source == source_of(raw_sources[i])
             endpoints ==
                 IterItems(GetOr(raw_sources[i], "endpoints", List(<<>>)))
         IN  load_sources(DictSet(sources, source.id, source),
                          load_endpoints(entries, source, endpoints, 1),
                          raw_sources, i + 1)

\* load_catalog(path), for the document json.load gave
load_catalog(doc) ==
    IF load_raises(doc) # ""
    THEN [state |-> "failed", raised |-> load_raises(doc), metadata |-> None,
          defaults |-> None, sources |-> Dict(<<>>), entries |-> Dict(<<>>)]
    ELSE LET loaded ==
                 load_sources(Dict(<<>>), Dict(<<>>),
                     IterItems(GetOr(doc, "sources", List(<<>>))), 1)
         IN  [state |-> "loaded", raised |-> "",
              metadata |->
                  Dict(<<KV("version", GetOr(doc, "version", Str("unknown"))),
                         KV("generated_at", GetOr(doc, "generated_at", Str(""))),
                         KV("timezone", GetOr(doc, "timezone", Str("UTC"))),
                         KV("notes", GetOr(doc, "notes", List(<<>>)))>>),
              defaults |-> GetOr(doc, "global_defaults", Dict(<<>>)),
              sources |-> loaded.sources,
              entries |-> loaded.entries]

\* the CatalogEntry under the id: its global_defaults is the object all
\* entries share
entry_of(cat, entry_id) ==
    LET e == Get(cat.entries, entry_id)
    IN  [id |-> e.id, raw |-> e.raw, source |-> e.source,
         global_defaults |-> cat.defaults]

\* Catalog.get_entry(entry_id), Catalog[entry_id]: self.entries[entry_id]
get_entry(cat, entry_id) ==
    IF Has(cat.entries, entry_id) THEN Outcome("", entry_of(cat, entry_id))
    ELSE Outcome("KeyError", None)

\* the mutant: _merge_dicts updates base in place
base_after_merge_in_place(base, overrides) ==
    IF Truthy(base) /\ Truthy(overrides) THEN DictUpdate(base, overrides)
    ELSE base

\* what the object passed as base holds after _merge_dicts(base, overrides):
\* both updates go to merged, a new dict (catalog.py:196-200)
base_after_merge(base, overrides) == base

\* what global_defaults holds after expand: http_defaults is a shallow copy
\* (catalog.py:63), so the retries and rate_limit handed to _merge_dicts as
\* base (catalog.py:81-82) are the mappings of global_defaults itself;
\* scheduling_defaults is a copy of its own (catalog.py:64)
defaults_after_expand(e) ==
    LET http == Get(e.global_defaults, "http")
        after(h, key) ==
            IF Has(h, key)
            THEN DictSet(h, key, base_after_merge(Get(h, key), Get(e.raw, key)))
            ELSE h
    IN  IF expand_raises(e) \/ ~Has(e.global_defaults, "http")
        THEN e.global_defaults
        ELSE DictSet(e.global_defaults, "http",
                     after(after(http, "retries"), "rate_limit"))

\* entry.expand(params), with the ValueError of a missing url_template
expand_outcome(e, p) ==
    IF expand_raises(e) THEN Outcome("ValueError", None)
    ELSE Outcome("", expand(e, p))

-----------------------------------------------------------------------------
(* sources/dispatcher.py: execute_entry                                    *)

\* if key in request_config: request_kwargs[kwarg] = request_config[key]
with_kwarg(request_kwargs, kwarg, config, key) ==
    IF Has(config, key) THEN DictSet(request_kwargs, kwarg, Get(config, key))
    ELSE request_kwargs

\* request_kwargs (dispatcher.py:74-82)
request_kwargs_of(config) ==
    LET k1 == with_kwarg(Dict(<<>>), "params", config, "query")
        k2 == with_kwarg(k1, "data", config, "payload")
        k3 == with_kwarg(k2, "headers", config, "headers")
    IN  with_kwarg(k3, "timeout", config, "timeout_seconds")

\* the call http_client.request(method, url, **request_kwargs)
transport_call(config) ==
    [method |-> Upper(GetOr(config, "method", Str("GET")).s),
     url |-> Get(config, "endpoint"),
     kwargs |-> request_kwargs_of(config)]

\* the branch of dispatcher.py:86-103 that decodes the response
decode_branch(config) ==
    LET parser == GetOr(config, "parser", Str("json"))
    IN  IF parser = Str("json") THEN "json"
        ELSE IF parser = Str("csv") THEN "csv"
        ELSE IF parser = Str("rss") THEN "rss"
        ELSE "text"

\* the payload a branch gives for a response it can decode
decoded(branch, body) ==
    Dict(<<KV("decoded_by", Str(branch)), KV("body", body)>>)

\* the mutant: the envelope carries the enriched mapping
envelope_params_enriched(caller_params, enriched_params) == enriched_params

\* "params": params
envelope_params(caller_params, enriched_params) == caller_params

\* the mapping execute_entry returns; now: datetime.utcnow().isoformat()
result_envelope(e, config, caller_params, enriched_params, decoded_payload, now) ==
    Dict(<<KV("category", Str(e.id)),
           KV("name", entry_name(e)),
           KV("source", Get(config, "source")),
           KV("fetched_at", Str(now \o "Z")),
           KV("params", envelope_params(caller_params, enriched_params)),
           KV("payload", decoded_payload),
           KV("storage", Get(config, "storage"))>>)

-----------------------------------------------------------------------------
(* Direct calls of one function: the arguments are drawn in Init, the      *)
(* action applies the function.                                            *)

NotCalled == [k |-> "not-called", s |-> "", items |-> <<>>]
NotReturned == [k |-> "not-returned", s |-> "", items |-> <<>>]

\* no catalog document is being loaded or used
NoDocument == [k |-> "no-document", s |-> "", items |-> <<>>]
NotLoaded ==
    [state |-> "not-loaded", raised |-> "", metadata |-> None,
     defaults |-> None, sources |-> Dict(<<>>), entries |-> Dict(<<>>)]
CatalogIdle ==
    /\ document = NoDocument
    /\ catalog = NotLoaded
    /\ expansions = {}

\* execute_entry is not running
DispatchIdle ==
    /\ CatalogIdle
    /\ pc = "idle"
    /\ entry = None
    /\ params = None
    /\ enriched = None
    /\ request_config = None
    /\ sent = <<>>
    /\ response = None
    /\ payload = None
    /\ envelope = NotReturned
    /\ trace = <<>>

\* the policies a catalog document declares for retries, rate_limit, scheduling
Policies ==
    { None,
      Dict(<<>>),
      Dict(<<KV("a", Num("1"))>>),
      Dict(<<KV("b", Num("3"))>>),
      Dict(<<KV("a", Num("2")), KV("b", Num("3"))>>),
      Dict(<<KV("b", Num("4")), KV("a", Num("1"))>>),
      Dict(<<KV("total", Num("3")), KV("backoff", Str("exp"))>>),
      Dict(<<KV("total", Num("0"))>>) }

MergeInit ==
    /\ DispatchIdle
    /\ \E base \in Policies, overrides \in Policies :
           call = [fn |-> "_merge_dicts", base |-> base, overrides |-> overrides]
    /\ ret = NotCalled

MergeCall ==
    /\ call.fn = "_merge_dicts"
    /\ ret = NotCalled
    /\ ret' = merge_dicts(call.base, call.overrides)
    /\ UNCHANGED <<call, dispatch_vars, catalog_vars>>

MergeNext == MergeCall

SpecMerge == MergeInit /\ [][MergeNext]_vars

-----------------------------------------------------------------------------
(* SpecSubst: _apply_template on template values and parameter mappings,   *)
(* then again on its own result.                                           *)

\* template values: scalars, and mappings and sequences of them
TemplateStrings ==
    { "", "plain", "a", "b", "{a}", "{b}", "x{a}y", "{a}{b}", "{b}/{a}",
      "{c}", "{{a}}", "{a", "a}" }

TemplateValues ==
    { Str(s) : s \in TemplateStrings }
    \cup { Num("7"), None,
           Dict(<<>>),
           Dict(<<KV("q", Str("{a}")), KV("r", Str("a"))>>),
           Dict(<<KV("a", Str("{c}")), KV("n", Num("7"))>>),
           Dict(<<KV("a", Str("plain"))>>),
           List(<<Str("{a}"), Str("b")>>),
           List(<<Str("plain"), Num("7")>>),
           Dict(<<KV("n", List(<<Str("{b}"), Str("{c}")>>))>>),
           Dict(<<KV("n", Dict(<<KV("m", Str("a"))>>))>>) }

\* parameter mappings, in the order their keys were inserted
SubstParams ==
    { Dict(<<>>),
      Dict(<<KV("a", Str("1"))>>),
      Dict(<<KV("a", Str("1")), KV("b", Str("2"))>>),
      Dict(<<KV("b", Str("2")), KV("a", Str("1"))>>),
      Dict(<<KV("a", Str("{b}")), KV("b", Str("2"))>>),
      Dict(<<KV("b", Str("{a}")), KV("a", Str("2"))>>),
      Dict(<<KV("a", Str("b")), KV("b", Str("2"))>>),
      Dict(<<KV("a", Num("5"))>>),
      Dict(<<KV("a", None)>>),
      Dict(<<KV("a", Str(""))>>),
      Dict(<<KV("c", Str("a"))>>) }

SubstInit ==
    /\ DispatchIdle
    /\ \E value \in TemplateValues, p \in SubstParams :
           call = [fn |-> "_apply_template", value |-> value, params |-> p,
                   times |-> 0]
    /\ ret = NotCalled

\* _apply_template(value, params)
SubstCall ==
    /\ call.fn = "_apply_template"
    /\ call.times = 0
    /\ ret' = apply_template(call.value, call.params)
    /\ call' = [call EXCEPT !.times = 1]
    /\ UNCHANGED <<dispatch_vars, catalog_vars>>

\* _apply_template(r, params) on r, the result of the first call
SubstAgain ==
    /\ call.fn = "_apply_template"
    /\ call.times = 1
    /\ ret' = apply_template(ret, call.params)
    /\ call' = [call EXCEPT !.value = ret, !.times = 2]
    /\ UNCHANGED <<dispatch_vars, catalog_vars>>

SubstNext == SubstCall \/ SubstAgain

SpecSubst == SubstInit /\ [][SubstNext]_vars

-----------------------------------------------------------------------------
(* SpecStorage: template, resolve and render of a StoragePlan; render is   *)
(* called a second time with other parameters.                             *)

\* the plans: every scope, with and without each optional key; they include
\* the shapes of DEFAULT_STORAGE_MAP (storage.py:122-205)
Plans ==
    { StoragePlan(scope, dataset, instrument_type, parameter_key,
                  derivative_key, Str("1d"), Str("Asia/Taipei"), None) :
        scope \in {"instrument", "market", "source", "sector"},
        dataset \in {"ohlcv/daily", "disclosures//rss/"},
        instrument_type \in {None, Str("equity")},
        parameter_key \in {None, Str("stock_code")},
        derivative_key \in {None, Str("underlying")} }

SourceIds == {"twse"}

\* the values a caller gives a path parameter: absent, null, empty, a string,
\* a number
StorageParams ==
    { Dict(a \o b) :
        a \in { <<>>, <<KV("stock_code", None)>>, <<KV("stock_code", Str(""))>>,
                <<KV("stock_code", Str("2330"))>>,
                <<KV("stock_code", Num("2330"))>> },
        b \in { <<>>, <<KV("underlying", None)>>, <<KV("underlying", Str(""))>>,
                <<KV("underlying", Str("TX"))>> } }

StorageInit ==
    /\ DispatchIdle
    /\ \E fn \in {"StoragePlan.template", "StoragePlan.resolve",
                  "StoragePlan.render"},
          plan \in Plans, source_id \in SourceIds, p \in StorageParams :
           call = [fn |-> fn, plan |-> plan, source_id |-> source_id,
                   params |-> p, times |-> 0, first |-> NotCalled]
    /\ ret = NotCalled

\* plan.template(source_id)
TemplateCall ==
    /\ call.fn = "StoragePlan.template"
    /\ call.times = 0
    /\ ret' = template(call.plan, call.source_id)
    /\ call' = [call EXCEPT !.times = 1]
    /\ UNCHANGED <<dispatch_vars, catalog_vars>>

\* plan.resolve(source_id, params)
ResolveCall ==
    /\ call.fn = "StoragePlan.resolve"
    /\ call.times = 0
    /\ ret' = resolve(call.plan, call.source_id, call.params)
    /\ call' = [call EXCEPT !.times = 1]
    /\ UNCHANGED <<dispatch_vars, catalog_vars>>

\* plan.render(source_id, params)
RenderCall ==
    /\ call.fn = "StoragePlan.render"
    /\ call.times = 0
    /\ ret' = render(call.plan, call.source_id, call.params)
    /\ call' = [call EXCEPT !.times = 1]
    /\ UNCHANGED <<dispatch_vars, catalog_vars>>

\* plan.render(source_id, other) after a first render, whose hint is kept
RenderAgain ==
    /\ call.fn = "StoragePlan.render"
    /\ call.times = 1
    /\ \E other \in StorageParams :
           /\ ret' = render(call.plan, call.source_id, other)
           /\ call' = [call EXCEPT !.params = other, !.first = ret,
                                   !.times = 2]
    /\ UNCHANGED <<dispatch_vars, catalog_vars>>

StorageNext == TemplateCall \/ ResolveCall \/ RenderCall \/ RenderAgain

SpecStorage == StorageInit /\ [][StorageNext]_vars

-----------------------------------------------------------------------------
(* SpecParser: the parser token expand chooses for an entry's raw fields.  *)

\* declared response.content_type strings
ContentTypes ==
    { "application/json", "text/csv", "TEXT/CSV; charset=utf-8",
      " text/html ;q=1", "application/rss+xml", "text/xml",
      "application/octet-stream", "application/octet-stream|text/csv",
      "text/plain|Application/XML|text/csv", "text/csv|application/json",
      "|text/html", " ; x|text/json", "text/csvx", "image/png|foo" }

ResponseMetas ==
    { <<>>,
      <<KV("response", None)>>,
      <<KV("response", Dict(<<>>))>>,
      <<KV("response", Dict(<<KV("schema", Str("rows"))>>))>>,
      <<KV("response", Dict(<<KV("content_type", None)>>))>>,
      <<KV("response", Dict(<<KV("content_type", Str(""))>>))>> }
    \cup { <<KV("response", Dict(<<KV("content_type", Str(ct))>>))>> :
             ct \in ContentTypes }

ParserFields ==
    { <<>>, <<KV("parser", None)>>, <<KV("parser", Str(""))>> }
    \cup { <<KV("parser", Str(token))>> :
             token \in {"json", "csv", "rss", "html", "xml"} }

ParserInit ==
    /\ DispatchIdle
    /\ \E parser \in ParserFields, meta \in ResponseMetas :
           call = [fn |-> "expand.parser", raw |-> Dict(parser \o meta)]
    /\ ret = NotCalled

\* the parser of CatalogEntry.expand (catalog.py:84)
ParserCall ==
    /\ call.fn = "expand.parser"
    /\ ret = NotCalled
    /\ ret' = expand_parser(call.raw)
    /\ UNCHANGED <<call, dispatch_vars, catalog_vars>>

ParserNext == ParserCall

SpecParser == ParserInit /\ [][ParserNext]_vars

-----------------------------------------------------------------------------
(* SpecEnrich: enrich_params on the parameter mappings of a caller.        *)

\* date strings no accepted format matches
UnparseableDates ==
    { "garbage", "2024-02-30", "2023-02-29", "2024-13-01", "0000-01-01",
      "2024-09-05 ", "05/09/2024", "202410", "2024-09/05" }

\* the values a caller gives the date parameter
DateValues ==
    { Str(s) : s \in UnparseableDates }
    \cup { Str(s) : s \in { "2024-09-05", "2024/09/05", "20240905", "2024-9-5",
                            "2024111", "2024-02-29", "1911-12-31",
                            "1912-01-01", "0999-01-01", "9999-12-31", "" } }
    \cup { None, Num("20240905"), Num("0"), DateTime(2023, 12, 31),
           DateTime(1900, 1, 1) }

\* what else the caller supplies: other parameters, and values under the
\* names of derived keys
SuppliedBefore ==
    { <<>>, <<KV("stock_code", Str("2330"))>>,
      <<KV("YYYYMMDD", Str("19990101")), KV("ROC_YEAR", Num("88"))>> }

SuppliedAfter ==
    { <<>>, <<KV("YYY", Str("088")), KV("MM", Str("1"))>>,
      <<KV("YYYY/MM/DD", None), KV("YYY/MM", Str(""))>> }

EnrichParams ==
    { Dict(a \o d \o b) :
        a \in SuppliedBefore,
        d \in {<<>>} \cup { <<KV("date", v)>> : v \in DateValues },
        b \in SuppliedAfter }

EnrichInit ==
    /\ DispatchIdle
    /\ \E p \in EnrichParams :
           call = [fn |-> "enrich_params", params |-> p]
    /\ ret = NotCalled

\* enrich_params(params)
EnrichCall ==
    /\ call.fn = "enrich_params"
    /\ ret = NotCalled
    /\ \E padded \in BOOLEAN : ret' = enrich_params(call.params, padded)
    /\ UNCHANGED <<call, dispatch_vars, catalog_vars>>

EnrichNext == EnrichCall

SpecEnrich == EnrichInit /\ [][EnrichNext]_vars

-----------------------------------------------------------------------------
(* SpecDays: enrich_params on the four forms in which a caller can give    *)
(* one calendar day, in one build of the program.                          *)

\* calendar days <<year, month, day>>
Days ==
    { <<2024, 9, 5>>, <<2024, 1, 2>>, <<2023, 12, 31>>, <<2024, 2, 29>>,
      <<2000, 10, 10>>, <<1912, 1, 1>>, <<1911, 12, 31>>, <<1000, 1, 1>>,
      <<999, 12, 31>>, <<1, 1, 1>>, <<9999, 12, 31>>, <<2010, 12, 31>>,
      <<2011, 1, 1>> }

\* the names of the forms, in the order of DayForms
FormNames == <<"YYYY-MM-DD", "YYYY/MM/DD", "YYYYMMDD", "datetime">>

\* the date values that denote the day: the three literal formats and a
\* datetime value
DayForms(day) ==
    LET y == Fmt(day[1], 4)
        m == Fmt(day[2], 2)
        d == Fmt(day[3], 2)
    IN  << Str(y \o "-" \o m \o "-" \o d),
           Str(y \o "/" \o m \o "/" \o d),
           Str(y \o m \o d),
           DateTime(day[1], day[2], day[3]) >>

\* enrich_params({**rest, "date": value}) for each form of the day
enrich_each_form(rest, day, padded) ==
    List([ i \in 1..Len(FormNames) |->
             enrich_params(DictSet(rest, "date", DayForms(day)[i]), padded) ])

DaysInit ==
    /\ DispatchIdle
    /\ \E day \in Days, a \in SuppliedBefore, b \in SuppliedAfter :
           call = [fn |-> "enrich_each_form", day |-> day,
                   params |-> Dict(a \o b)]
    /\ ret = NotCalled

\* the build either pads the %Y of a year below 1000 or does not, the same
\* way in every call
DaysCall ==
    /\ call.fn = "enrich_each_form"
    /\ ret = NotCalled
    /\ \E padded \in BOOLEAN :
           ret' = enrich_each_form(call.params, call.day, padded)
    /\ UNCHANGED <<call, dispatch_vars, catalog_vars>>

DaysNext == DaysCall

SpecDays == DaysInit /\ [][DaysNext]_vars

-----------------------------------------------------------------------------
(* Spec: one call execute_entry(entry, params, client) on an entry of a    *)
(* loaded catalog.  The Transport (client.request) and the decoders are    *)
(* collaborators: each either returns or raises.                           *)

\* the Source of the entries
TwseSource ==
    [id |-> "twse", name |-> "TWSE",
     base_urls |-> List(<<Str("https://www.twse.com.tw")>>),
     discovery |-> None]

\* global_defaults of the catalog document
GlobalDefaults ==
    { Dict(<<>>),
      Dict(<<KV("http", Dict(<<KV("headers", Dict(<<>>))>>))>>),
      Dict(<<KV("http",
                Dict(<<KV("headers", Dict(<<KV("User-Agent", Str("tw"))>>)),
                       KV("timeout_seconds", Num("10")),
                       KV("retries", Dict(<<KV("total", Num("3"))>>))>>)),
             KV("scheduling", Dict(<<KV("tz", Str("Asia/Taipei"))>>))>>) }

\* the fields an endpoint may declare, each absent or in one of its forms
MethodFields == { <<>>, <<KV("method", Str("post"))>> }
UrlFields ==
    { <<>>, <<KV("url_template", Str(""))>>,
      <<KV("url_template", Str("https://x/{stock_code}?date={YYYYMMDD}"))>> }
QueryFields ==
    { <<>>, <<KV("query_template", Dict(<<>>))>>,
      <<KV("query_template",
           Dict(<<KV("stockNo", Str("{stock_code}")),
                  KV("date", Str("{YYYYMMDD}"))>>))>> }
PayloadFields ==
    { <<>>, <<KV("payload_template", Dict(<<KV("q", Str("stock_code"))>>))>> }
HeaderFields ==
    { <<>>, <<KV("headers", Dict(<<>>))>>,
      <<KV("headers", Dict(<<KV("Accept", Str("text/csv")),
                             KV("User-Agent", Str("tw/{stock_code}"))>>))>> }
TimeoutFields ==
    { <<>>, <<KV("timeout_seconds", None)>>, <<KV("timeout_seconds", Num("0"))>>,
      <<KV("timeout_seconds", Num("30"))>> }
DecoderFields ==
    { <<>>, <<KV("parser", Str("csv"))>>,
      <<KV("response", Dict(<<KV("content_type", Str("text/html"))>>))>> }

EntryIds == {"twse.exchangeReport.STOCK_DAY", "twse.custom.unmapped"}

\* the entries of the catalog: CatalogEntry(id=, raw=, source=,
\* global_defaults=) as load_catalog builds them
Entries ==
    { [id |-> id,
       raw |-> Dict(<<KV("id", Str(id))>> \o m \o u \o q \o b \o h \o s \o d),
       source |-> TwseSource,
       global_defaults |-> g] :
        id \in EntryIds, m \in MethodFields, u \in UrlFields,
        q \in QueryFields, b \in PayloadFields, h \in HeaderFields,
        s \in TimeoutFields, d \in DecoderFields, g \in GlobalDefaults }

\* the parameter mappings of the caller
CallerParams ==
    { Dict(<<>>),
      Dict(<<KV("stock_code", Str("2330")), KV("date", Str("2024-09-30")),
             KV("YY", Str("24"))>>) }

\* the response the Transport returns
Response == [k |-> "Response", s |-> "body", items |-> <<>>]

\* the readings of the clock at Assemble
Clock == {"2024-09-30T08:00:00.000000"}

Stage(name, ok) == [stage |-> name, ok |-> ok]

Init ==
    /\ \E e \in Entries, p \in CallerParams :
           /\ entry = e
           /\ params = p
           /\ call = [fn |-> "execute_entry", entry |-> e, params |-> p]
    /\ pc = "Enrich"
    /\ enriched = None
    /\ request_config = None
    /\ sent = <<>>
    /\ response = None
    /\ payload = None
    /\ envelope = NotReturned
    /\ trace = <<>>
    /\ ret = NotCalled
    /\ CatalogIdle

\* enriched = enrich_params(params)
Enrich ==
    /\ pc = "Enrich"
    /\ \E padded \in BOOLEAN : enriched' = enrich_params(params, padded)
    /\ trace' = Append(trace, Stage("Enrich", TRUE))
    /\ pc' = "Expand"
    /\ UNCHANGED <<entry, params, request_config, sent, response, payload,
                   envelope, call, ret, catalog_vars>>

\* request_config = entry.expand(enriched)
Expand ==
    /\ pc = "Expand"
    /\ \/ /\ expand_raises(entry)
          /\ trace' = Append(trace, Stage("Expand", FALSE))
          /\ pc' = "Failed"
          /\ UNCHANGED request_config
       \/ /\ ~expand_raises(entry)
          /\ request_config' = expand(entry, enriched)
          /\ trace' = Append(trace, Stage("Expand", TRUE))
          /\ pc' = "Send"
    /\ UNCHANGED <<entry, params, enriched, sent, response, payload, envelope,
                   call, ret, catalog_vars>>

\* response = http_client.request(method, url, **request_kwargs): the
\* Transport returns a response, or raises
Send ==
    /\ pc = "Send"
    /\ sent' = Append(sent, transport_call(request_config))
    /\ \/ /\ response' = Response
          /\ trace' = Append(trace, Stage("Send", TRUE))
          /\ pc' = "Decode"
       \/ /\ trace' = Append(trace, Stage("Send", FALSE))
          /\ pc' = "Failed"
          /\ UNCHANGED response
    /\ UNCHANGED <<entry, params, enriched, request_config, payload, envelope,
                   call, ret, catalog_vars>>

\* payload = ... (dispatcher.py:86-103): the decoder of the branch returns, or
\* (json, csv, rss) raises; response.text is taken as it is
Decode ==
    /\ pc = "Decode"
    /\ \/ /\ payload' = decoded(decode_branch(request_config), response)
          /\ trace' = Append(trace, Stage("Decode", TRUE))
          /\ pc' = "Assemble"
       \/ /\ decode_branch(request_config) # "text"
          /\ trace' = Append(trace, Stage("Decode", FALSE))
          /\ pc' = "Failed"
          /\ UNCHANGED payload
    /\ UNCHANGED <<entry, params, enriched, request_config, sent, response,
                   envelope, call, ret, catalog_vars>>

\* return {...}
Assemble ==
    /\ pc = "Assemble"
    /\ \E now \in Clock :
           envelope' = result_envelope(entry, request_config, params, enriched,
                                       payload, now)
    /\ trace' = Append(trace, Stage("Assemble", TRUE))
    /\ pc' = "Done"
    /\ UNCHANGED <<entry, params, enriched, request_config, sent, response,
                   payload, call, ret, catalog_vars>>

Next == Enrich \/ Expand \/ Send \/ Decode \/ Assemble

Spec == Init /\ [][Next]_vars

-----------------------------------------------------------------------------
(* SpecCatalog: a process loads the catalog document once and then looks   *)
(* entries up, expands and executes them, in any order and any number of   *)
(* times.                                                                  *)

\* endpoints of the document
StockDayEndpoint ==
    Dict(<<KV("id", Str("twse.exchangeReport.STOCK_DAY")),
           KV("name", Str("Daily quotes")),
           KV("url_template", Str("https://x/{stock_code}")),
           KV("query_template", Dict(<<KV("date", Str("{YYYYMMDD}"))>>)),
           KV("headers", Dict(<<KV("Accept", Str("application/json"))>>)),
           KV("retries", Dict(<<KV("total", Num("5")),
                                KV("backoff", Num("2"))>>)),
           KV("rate_limit", Dict(<<KV("rps", Num("1"))>>)),
           KV("scheduling", Dict(<<KV("cron", Str("daily"))>>)),
           KV("response",
              Dict(<<KV("content_type", Str("application/json"))>>))>>)
UnmappedEndpoint ==
    Dict(<<KV("id", Str("twse.custom.unmapped")),
           KV("url_template", Str("https://y/{YYYYMMDD}")),
           KV("parser", Str("csv"))>>)
BrokenEndpoint ==
    Dict(<<KV("id", Str("twse.custom.broken")),
           KV("retries", Dict(<<KV("total", Num("9"))>>))>>)

TwseRawSource(endpoints) ==
    Dict(<<KV("id", Str("twse")), KV("name", Str("TWSE")),
           KV("base_urls", List(<<Str("https://www.twse.com.tw")>>)),
           KV("endpoints", List(endpoints))>>)

SharedDefaults ==
    Dict(<<KV("http",
              Dict(<<KV("headers", Dict(<<KV("User-Agent", Str("tw"))>>)),
                     KV("timeout_seconds", Num("10")),
                     KV("retries", Dict(<<KV("total", Num("3"))>>)),
                     KV("rate_limit", Dict(<<KV("rps", Num("5"))>>))>>)),
           KV("scheduling", Dict(<<KV("tz", Str("Asia/Taipei"))>>))>>)

\* what json.load gives for the file, or that it raises
Documents ==
    { [k |-> "unparseable", s |-> "{", items |-> <<>>],
      List(<<>>),
      Dict(<<>>),
      Dict(<<KV("version", Str("1")), KV("global_defaults", SharedDefaults)>>),
      Dict(<<KV("sources", None)>>),
      Dict(<<KV("sources", List(<<>>))>>),
      Dict(<<KV("sources", List(<<Dict(<<KV("name", Str("TWSE"))>>)>>))>>),
      Dict(<<KV("sources",
                List(<<TwseRawSource(<<Dict(<<KV("name", Str("x"))>>)>>)>>))>>),
      Dict(<<KV("version", Str("1")),
             KV("sources",
                List(<<TwseRawSource(<<StockDayEndpoint, UnmappedEndpoint>>)>>))>>),
      Dict(<<KV("version", Str("1")), KV("timezone", Str("Asia/Taipei")),
             KV("global_defaults", SharedDefaults),
             KV("sources",
                List(<<TwseRawSource(<<StockDayEndpoint, UnmappedEndpoint,
                                       BrokenEndpoint>>)>>))>>) }

\* the ids a caller asks for
LookupIds ==
    { "twse.exchangeReport.STOCK_DAY", "twse.custom.unmapped",
      "twse.custom.broken", "twse.unknown", "" }

\* what the collaborators of one execute_entry call do
Fates == {"returns", "Transport raises", "decoder raises"}

\* execute_entry(entry, params, client) as one call
execute_outcome(e, p, padded, fate, now) ==
    LET enriched_params == enrich_params(p, padded)
        config == expand(e, enriched_params)
    IN  IF expand_raises(e) THEN Outcome("ValueError", None)
        ELSE IF fate = "Transport raises" THEN Outcome("TransportError", None)
        ELSE IF fate = "decoder raises" /\ decode_branch(config) # "text"
        THEN Outcome("DecodeError", None)
        ELSE Outcome("", result_envelope(e, config, p, enriched_params,
                             decoded(decode_branch(config), Response), now))

CatalogInit ==
    /\ pc = "idle"
    /\ entry = None
    /\ params = None
    /\ enriched = None
    /\ request_config = None
    /\ sent = <<>>
    /\ response = None
    /\ payload = None
    /\ envelope = NotReturned
    /\ trace = <<>>
    /\ document \in Documents
    /\ catalog = NotLoaded
    /\ expansions = {}
    /\ call = [fn |-> "none"]
    /\ ret = NotCalled

\* catalog = load_catalog()
LoadCatalog ==
    /\ catalog.state = "not-loaded"
    /\ call' = [fn |-> "load_catalog"]
    /\ catalog' = load_catalog(document)
    /\ ret' = Outcome(load_raises(document), None)
    /\ UNCHANGED <<dispatch_vars, document, expansions>>

\* catalog.get_entry(entry_id), catalog[entry_id]
GetEntry ==
    /\ catalog.state = "loaded"
    /\ \E entry_id \in LookupIds :
           /\ call' = [fn |-> "get_entry", id |-> entry_id]
           /\ ret' = get_entry(catalog, entry_id)
    /\ UNCHANGED <<dispatch_vars, catalog_vars>>

\* entry.expand(params) on an entry of the catalog
ExpandEntry ==
    /\ catalog.state = "loaded"
    /\ \E entry_id \in Keys(catalog.entries), p \in CallerParams :
           LET e == entry_of(catalog, entry_id)
           IN  /\ call' = [fn |-> "expand", id |-> entry_id, params |-> p]
               /\ ret' = expand_outcome(e, p)
               /\ catalog' =
                      [catalog EXCEPT !.defaults = defaults_after_expand(e)]
               /\ expansions' =
                      expansions \cup
                          { [id |-> entry_id, params |-> p,
                             result |-> expand_outcome(e, p)] }
    /\ UNCHANGED <<dispatch_vars, document>>

\* execute_entry(entry, params, client) on an entry of the catalog; the
\* Transport and the decoder each return or raise
ExecuteEntry ==
    /\ catalog.state = "loaded"
    /\ \E entry_id \in Keys(catalog.entries), p \in CallerParams,
          padded \in BOOLEAN, fate \in Fates, now \in Clock :
           LET e == entry_of(catalog, entry_id)
           IN  /\ call' = [fn |-> "execute_entry", id |-> entry_id,
                           params |-> p]
               /\ ret' = execute_outcome(e, p, padded, fate, now)
               /\ catalog' =
                      [catalog EXCEPT !.defaults = defaults_after_expand(e)]
    /\ UNCHANGED <<dispatch_vars, document, expansions>>

CatalogNext == LoadCatalog \/ GetEntry \/ ExpandEntry \/ ExecuteEntry

SpecCatalog == CatalogInit /\ [][CatalogNext]_vars

-----------------------------------------------------------------------------
(* Properties of _merge_dicts (SpecMerge).                                 *)

\* the keys of a policy: none for an absent one
PolicyKeys(v) == IF IsDict(v) THEN Keys(v) ELSE {}

MergeReturned == call.fn = "_merge_dicts" /\ ret # NotCalled

\* overrides' value on every key of overrides, base's value on the others
MergedAsExpected ==
    /\ IsDict(ret)
    /\ Keys(ret) = PolicyKeys(call.base) \cup PolicyKeys(call.overrides)
    /\ \A key \in Keys(ret) :
           Get(ret, key) = IF key \in PolicyKeys(call.overrides)
                           THEN Get(call.overrides, key)
                           ELSE Get(call.base, key)

\* C7, as claimed: merge(null, null) = null, merge({}, null) = {} (an empty
\* mapping, not null), and for non-empty inputs the result holds every key of
\* both mappings with the override's value on shared keys.
C7_MergeDistinguishesEmpty ==
    MergeReturned =>
        /\ (IsNone(call.base) /\ IsNone(call.overrides) => ret = None)
        /\ (call.base = Dict(<<>>) /\ IsNone(call.overrides)
                => ret = Dict(<<>>))
        /\ (Truthy(call.base) /\ Truthy(call.overrides) => MergedAsExpected)

\* C7, amended: the merger returns null whenever both inputs are absent or
\* empty (merge(null, null) = null and merge({}, null) = null: an empty policy
\* is not told apart from an absent one); whenever at least one input is
\* non-empty the result is a mapping holding every key of both inputs with the
\* override's value on shared keys.
C7_MergeNullWhenBothEmpty ==
    MergeReturned =>
        /\ (~Truthy(call.base) /\ ~Truthy(call.overrides) => ret = None)
        /\ (Truthy(call.base) \/ Truthy(call.overrides) => MergedAsExpected)

\* merge({a:1}, {a:2,b:3}) has returned {a:2,b:3}
C7_Witness ==
    /\ MergeReturned
    /\ call.base = Dict(<<KV("a", Num("1"))>>)
    /\ call.overrides = Dict(<<KV("a", Num("2")), KV("b", Num("3"))>>)
    /\ ret = Dict(<<KV("a", Num("2")), KV("b", Num("3"))>>)

-----------------------------------------------------------------------------
(* Properties of substitute / _apply_template (SpecSubst).                 *)

\* the string scalars of a nested value (the values, not the mapping keys)
RECURSIVE StrScalars(_)
StrScalars(v) ==
    IF IsStr(v) THEN {v.s}
    ELSE UNION {StrScalars(v.items[i].val) : i \in 1..Len(v.items)}

\* v contains no {k} token for any key k of p
NoMatchingToken(v, p) ==
    \A s \in StrScalars(v), key \in Keys(p) :
        ~Contains(s, "{" \o key \o "}")

\* no string scalar of v is, as a whole, a key of p
NoWholeKey(v, p) == \A s \in StrScalars(v) : s \notin Keys(p)

SubstReturned == call.fn = "_apply_template" /\ call.times >= 1

\* C8, as claimed: a value with no {k} token for any key k of p is returned
\* unchanged by substitution (so a second application changes nothing when
\* the first result has no matching token left).
C8_NoTokenNoChange ==
    SubstReturned /\ NoMatchingToken(call.value, call.params)
        => ret = call.value

\* C8, amended: a value with no {k} token for any key k of p, and in which no
\* string scalar is as a whole a key of p, is returned unchanged by
\* substitution; so a second application with the same p changes nothing
\* when the first result has no matching token left and none of its string
\* scalars is a key of p.
C8_NoTokenNoKeyNoChange ==
    SubstReturned /\ NoMatchingToken(call.value, call.params)
                  /\ NoWholeKey(call.value, call.params)
        => ret = call.value

\* "x{a}y" became "x1y", and substitution was applied again to "x1y"
C8_Witness ==
    /\ SubstReturned
    /\ call.times = 2
    /\ call.value = Str("x1y")
    /\ Has(call.params, "a")
    /\ ret = Str("x1y")

-----------------------------------------------------------------------------
(* Properties of StoragePlan (SpecStorage).                                *)

\* the keys the path of a plan needs: those of an instrument-scope plan
RequiredKeys(plan) ==
    IF plan.scope = "instrument"
    THEN {plan.parameter_key}
         \cup (IF Truthy(plan.derivative_key) THEN {plan.derivative_key}
               ELSE {})
    ELSE {}

\* params gives no value for the key (an undeclared parameter_key of an
\* instrument plan can be given none)
MissingKey(key, p) == IsNone(key) \/ IsNone(Get(p, key.s))

NoPlaceholderIn(s) == ~Contains(s, "{") /\ ~Contains(s, "}")

ResolveReturned == call.fn = "StoragePlan.resolve" /\ call.times = 1

\* C4: resolve is all-or-nothing: it returns null exactly when params misses
\* a key the plan's path requires (parameter_key, and derivative_key when
\* declared), and otherwise a path string with no {...} placeholder in it.
C4_ResolveAllOrNothing ==
    ResolveReturned =>
        /\ IsNone(ret) <=>
               \E key \in RequiredKeys(call.plan) : MissingKey(key, call.params)
        /\ ~IsNone(ret) => IsStr(ret) /\ NoPlaceholderIn(ret.s)

\* the symbol is given and the underlying is not: resolve returned null
C4_Witness ==
    /\ ResolveReturned
    /\ call.plan.scope = "instrument"
    /\ call.plan.parameter_key = Str("stock_code")
    /\ call.plan.derivative_key = Str("underlying")
    /\ Get(call.params, "stock_code") = Str("2330")
    /\ ~Has(call.params, "underlying")
    /\ IsNone(ret)

RenderReturned == call.fn = "StoragePlan.render" /\ call.times >= 1

\* the plan of twse.exchangeReport.STOCK_DAY (storage.py:123-131): instrument
\* scope, parameter_key stock_code, dataset ohlcv/daily, no derivative_key
IsStockDayPlan(plan) ==
    /\ plan.scope = "instrument"
    /\ plan.dataset = "ohlcv/daily"
    /\ plan.parameter_key = Str("stock_code")
    /\ IsNone(plan.derivative_key)

\* C5: the hint render returns has a template that is a string, also when
\* its path is null, and the same string whatever the params; for the plan
\* with parameter_key stock_code and dataset ohlcv/daily it ends in
\* {stock_code}/spot/ohlcv/daily.
C5_TemplateAlwaysPresent ==
    RenderReturned =>
        /\ IsStr(Get(ret, "template"))
        /\ Get(ret, "template").s # ""
        /\ call.times = 2 => Get(ret, "template") = Get(call.first, "template")
        /\ IsStockDayPlan(call.plan)
               => EndsWith(Get(ret, "template").s,
                           "{stock_code}/spot/ohlcv/daily")

\* render gave a path for {stock_code: "2330"} and then, for empty params, a
\* null path
C5_Witness ==
    /\ RenderReturned
    /\ call.times = 2
    /\ IsStockDayPlan(call.plan)
    /\ Get(call.first, "path") = Str("twse/2330/spot/ohlcv/daily")
    /\ call.params = Dict(<<>>)
    /\ IsNone(Get(ret, "path"))

\* a path was built for an instrument-scope plan: a template, or a resolved
\* path that is not null
InstrumentPathBuilt ==
    /\ call.fn \in {"StoragePlan.template", "StoragePlan.resolve"}
    /\ call.times = 1
    /\ call.plan.scope = "instrument"
    /\ IsStr(ret)

\* the segment of a key in the built path: its placeholder in a template,
\* the string form of its value in a resolved path
SegmentOf(key) ==
    IF call.fn = "StoragePlan.template"
    THEN "{" \o (IF IsNone(key) THEN "symbol" ELSE key.s) \o "}"
    ELSE StrOf(Get(call.params, key.s))

DatasetSegments == SelectSeq(Split(call.plan.dataset, "/"), LAMBDA x : x # "")

InstrumentTypeSegment ==
    IF Truthy(call.plan.instrument_type) THEN call.plan.instrument_type.s
    ELSE "derivative"

NonEmpty(segments) == SelectSeq(segments, LAMBDA x : x # "")

\* no key of the plan has an empty string form
NoEmptySegment ==
    /\ SegmentOf(call.plan.parameter_key) # ""
    /\ Truthy(call.plan.derivative_key)
           => SegmentOf(call.plan.derivative_key) # ""

\* C6, as claimed: the path is sourceId, the symbol segment, then (with a
\* derivative_key) the underlying segment, "derivatives" and instrument_type,
\* or (without) "spot", then the dataset segments.
C6_SymbolRightAfterSource ==
    InstrumentPathBuilt /\ NoEmptySegment =>
        Split(ret.s, "/") =
            <<call.source_id, SegmentOf(call.plan.parameter_key)>>
            \o (IF Truthy(call.plan.derivative_key)
                THEN <<SegmentOf(call.plan.derivative_key), "derivatives",
                       InstrumentTypeSegment>>
                ELSE <<"spot">>)
            \o DatasetSegments

\* C6, amended: without a derivative_key the path is sourceId, the symbol
\* segment, "spot", then the dataset segments; with a derivative_key it is
\* sourceId, the underlying segment, "derivatives", instrument_type
\* ("derivative" when the plan has none), then the symbol segment, then the
\* dataset segments.  A key whose value has an empty string form gives no
\* segment.
C6_SymbolAfterDerivativeSegments ==
    InstrumentPathBuilt =>
        Split(ret.s, "/") =
            NonEmpty(
                <<call.source_id>>
                \o (IF Truthy(call.plan.derivative_key)
                    THEN <<SegmentOf(call.plan.derivative_key), "derivatives",
                           InstrumentTypeSegment,
                           SegmentOf(call.plan.parameter_key)>>
                    ELSE <<SegmentOf(call.plan.parameter_key), "spot">>)
                \o DatasetSegments)

\* a derivative plan resolved with both values given
C6_Witness ==
    /\ InstrumentPathBuilt
    /\ call.fn = "StoragePlan.resolve"
    /\ call.plan.derivative_key = Str("underlying")
    /\ call.plan.dataset = "ohlcv/daily"
    /\ Get(call.params, "stock_code") = Str("2330")
    /\ Get(call.params, "underlying") = Str("TX")
    /\ ret = Str("twse/TX/derivatives/equity/2330/ohlcv/daily")

-----------------------------------------------------------------------------
(* Properties of the parser selection (SpecParser).                        *)

\* the mapping table of MIME types to parser tokens (spec 4.7)
MimeTable ==
    [mime \in {"application/json", "text/json", "application/vnd.api+json",
               "text/csv", "application/csv", "application/vnd.ms-excel",
               "application/rss+xml", "application/xml", "text/xml",
               "text/html", "application/xhtml+xml"} |->
        CASE mime \in {"application/json", "text/json",
                       "application/vnd.api+json"} -> "json"
          [] mime \in {"text/csv", "application/csv",
                       "application/vnd.ms-excel"} -> "csv"
          [] mime \in {"application/rss+xml", "application/xml", "text/xml"}
                 -> "rss"
          [] OTHER -> "html"]

\* the MIME type of a candidate: the text before ";", trimmed, lower-cased
CandidateMime(candidate) == Lower(Strip(Split(candidate, ";")[1]))

\* the entry declares a parser / a content type
DeclaredParser == Get(call.raw, "parser")
HasExplicitParser == IsStr(DeclaredParser) /\ DeclaredParser.s # ""
DeclaredContentType ==
    IF IsDict(Get(call.raw, "response"))
    THEN Get(Get(call.raw, "response"), "content_type")
    ELSE None
HasContentType == IsStr(DeclaredContentType) /\ DeclaredContentType.s # ""

Candidates == Split(DeclaredContentType.s, "|")

\* the positions of the candidates the table recognises
Recognised ==
    {i \in 1..Len(Candidates) : CandidateMime(Candidates[i]) \in DOMAIN MimeTable}

FirstRecognised == CHOOSE i \in Recognised : \A j \in Recognised : i <= j

ParserChosen == call.fn = "expand.parser" /\ ret # NotCalled

\* C9: the token is the explicit parser when the entry has one; otherwise
\* that of the first |-delimited candidate of content_type whose MIME type is
\* in the table; and json when there is no such candidate or no content_type.
C9_ParserPrecedence ==
    ParserChosen =>
        ret = IF HasExplicitParser THEN DeclaredParser
              ELSE IF HasContentType /\ Recognised # {}
              THEN Str(MimeTable[CandidateMime(Candidates[FirstRecognised])])
              ELSE Str("json")

\* explicit parser csv with content_type application/json: csv
C9_Witness ==
    /\ ParserChosen
    /\ DeclaredParser = Str("csv")
    /\ DeclaredContentType = Str("application/json")
    /\ ret = Str("csv")

-----------------------------------------------------------------------------
(* Properties of enrich_params (SpecEnrich).                               *)

EnrichReturned == call.fn = "enrich_params" /\ ret # NotCalled

\* the date parameter is absent, or no accepted format matches it
NoUsableDate ==
    \/ ~Has(call.params, "date")
    \/ ~Truthy(Get(call.params, "date"))
    \/ IsNone(coerce_date(Get(call.params, "date")))
    \/ (IsStr(Get(call.params, "date"))
            /\ Get(call.params, "date").s \in UnparseableDates)

\* C10: every entry of params is in the result with the value the caller
\* gave it, derived key names included; and with no date, or one that no
\* accepted format matches, the result is params itself.
C10_CallerEntriesKept ==
    EnrichReturned =>
        /\ IsDict(ret)
        /\ \A key \in Keys(call.params) :
               Has(ret, key) /\ Get(ret, key) = Get(call.params, key)
        /\ NoUsableDate => ret = call.params

\* the caller supplied YYYYMMDD with a date of another day: it is kept, and
\* the other keys are derived from the date
C10_Witness ==
    /\ EnrichReturned
    /\ Get(call.params, "date") = Str("2024-09-05")
    /\ Get(call.params, "YYYYMMDD") = Str("19990101")
    /\ Get(ret, "YYYYMMDD") = Str("19990101")
    /\ Get(ret, "YYYYMM") = Str("202409")
    /\ Get(ret, "ROC_YEAR") = Num("88")
    /\ Get(ret, "YYY") = Str("113")

-----------------------------------------------------------------------------
(* Properties of execute_entry (Spec).                                     *)

StageOrder == <<"Enrich", "Expand", "Send", "Decode", "Assemble">>

\* the stage ran, and (Succeeded) did not raise
Ran(name) == \E i \in 1..Len(trace) : trace[i].stage = name
Succeeded(name) ==
    \E i \in 1..Len(trace) : trace[i].stage = name /\ trace[i].ok

Returned == envelope # NotReturned

\* C1: the stages run in the order Enrich, Expand, Send, Decode, Assemble,
\* each at most once, and none after a stage that failed; the Transport is
\* called only after Expand succeeded (never for an entry with no
\* url_template) and at most once, also when it raises; Decode runs only
\* after the Transport returned; an envelope is returned only when all five
\* stages succeeded.
C1_StagesInOrder ==
    /\ Len(trace) <= Len(StageOrder)
    /\ \A i \in 1..Len(trace) : trace[i].stage = StageOrder[i]
    /\ \A i \in 1..Len(trace) : i < Len(trace) => trace[i].ok
    /\ Len(sent) <= 1
    /\ Len(sent) = (IF Ran("Send") THEN 1 ELSE 0)
    /\ sent # <<>> =>
           Succeeded("Expand") /\ Truthy(Get(call.entry.raw, "url_template"))
    /\ Ran("Decode") => Succeeded("Send") /\ response = Response
    /\ Returned <=> (Len(trace) = 5 /\ \A i \in 1..5 : trace[i].ok)
    /\ pc = "Failed" => ~Returned /\ ~trace[Len(trace)].ok

\* a call went through the five stages and returned its envelope
C1_Witness ==
    /\ pc = "Done"
    /\ Returned
    /\ Len(sent) = 1
    /\ Len(trace) = 5

\* the parts the entry and the global defaults declare for the request
HttpDefaults == GetOr(call.entry.global_defaults, "http", Dict(<<>>))
QueryDeclared == Truthy(Get(call.entry.raw, "query_template"))
BodyDeclared == Truthy(Get(call.entry.raw, "payload_template"))
HeadersDeclared ==
    \/ Truthy(Get(call.entry.raw, "headers"))
    \/ Truthy(Get(HttpDefaults, "headers"))
TimeoutDeclared ==
    \/ ~IsNone(Get(call.entry.raw, "timeout_seconds"))
    \/ ~IsNone(Get(HttpDefaults, "timeout_seconds"))

NonEmptyMapping(v) == IsDict(v) /\ v.items # <<>>

\* C2: a call the Transport receives has a query, body or headers argument
\* only when the entry (or, for headers, a level of defaults) declares that
\* part, and then a non-empty mapping; it has a timeout argument only when a
\* level declares one, and then not null.  No other argument is passed.
C2_OnlyPresentParts ==
    \A i \in 1..Len(sent) :
        LET kwargs == sent[i].kwargs
        IN  /\ Keys(kwargs) \subseteq {"params", "data", "headers", "timeout"}
            /\ Has(kwargs, "params") =>
                   QueryDeclared /\ NonEmptyMapping(Get(kwargs, "params"))
            /\ Has(kwargs, "data") =>
                   BodyDeclared /\ NonEmptyMapping(Get(kwargs, "data"))
            /\ Has(kwargs, "headers") =>
                   HeadersDeclared /\ NonEmptyMapping(Get(kwargs, "headers"))
            /\ Has(kwargs, "timeout") =>
                   TimeoutDeclared /\ ~IsNone(Get(kwargs, "timeout"))

\* the Transport was called for an entry that declares an empty
\* query_template and empty headers, with no defaults: no argument was passed
C2_Witness ==
    /\ Len(sent) = 1
    /\ Get(call.entry.raw, "query_template") = Dict(<<>>)
    /\ Get(call.entry.raw, "headers") = Dict(<<>>)
    /\ ~Has(call.entry.raw, "payload_template")
    /\ ~Has(call.entry.raw, "timeout_seconds")
    /\ call.entry.global_defaults = Dict(<<>>)
    /\ sent[1].kwargs = Dict(<<>>)

\* the names of the derived date keys
DerivedKeys ==
    { "YYYYMMDD", "YYYYMM", "YYYY", "MM", "DD", "YYYY/MM/DD", "ROC_YEAR",
      "ROC_YY", "YYY", "YY", "YYYMM", "YYY/MM", "YYYMMDD", "YYY/MM/DD" }

\* C3: the caller's mapping is the same at every stage of the call, and the
\* params of the envelope is that mapping: it has no derived date key the
\* caller did not supply.
C3_EnvelopeParamsOriginal ==
    /\ params = call.params
    /\ Returned =>
           /\ Get(envelope, "params") = call.params
           /\ \A key \in DerivedKeys :
                  Has(Get(envelope, "params"), key) => Has(call.params, key)

\* the call enriched a date into derived keys and returned the mapping of the
\* caller without them
C3_Witness ==
    /\ Returned
    /\ Has(call.params, "date")
    /\ Has(enriched, "YYYYMMDD")
    /\ Get(enriched, "YY") = Str("24")
    /\ ~Has(Get(envelope, "params"), "YYYYMMDD")
    /\ Get(envelope, "params") = call.params

-----------------------------------------------------------------------------
(* Properties of the derived date keys (SpecDays, SpecEnrich).             *)

DaysReturned == call.fn = "enrich_each_form" /\ ret # NotCalled

\* what enrich_params returned for form i of the day
FormResult(i) == ret.items[i].val

\* the text of the Gregorian keys for a day: 4, 2 and 2 zero-padded digits
GregorianOf(day) ==
    LET y == Fmt(day[1], 4)
        m == Fmt(day[2], 2)
        d == Fmt(day[3], 2)
    IN  [ YYYYMMDD |-> y \o m \o d, YYYYMM |-> y \o m, YYYY |-> y,
          MM |-> m, DD |-> d, YYYYSMMSDD |-> y \o "/" \o m \o "/" \o d ]

GregorianKeys ==
    { <<"YYYYMMDD", "YYYYMMDD">>, <<"YYYYMM", "YYYYMM">>, <<"YYYY", "YYYY">>,
      <<"MM", "MM">>, <<"DD", "DD">>, <<"YYYY/MM/DD", "YYYYSMMSDD">> }

\* the derived Gregorian keys of the result for form i are those of the day
GregorianAsDay(i) ==
    \A key \in GregorianKeys :
        ~Has(call.params, key[1]) =>
            Get(FormResult(i), key[1]) = Str(GregorianOf(call.day)[key[2]])

\* the results for all forms carry the same derived Gregorian keys
SameAcrossForms ==
    \A i, j \in 1..Len(FormNames) : \A key \in GregorianKeys :
        ~Has(call.params, key[1]) =>
            Get(FormResult(i), key[1]) = Get(FormResult(j), key[1])

\* C11: for every day, enrich_params on YYYY-MM-DD, YYYY/MM/DD, YYYYMMDD and
\* on a datetime value of the day yields the same YYYYMMDD, YYYYMM, YYYY, MM,
\* DD and YYYY/MM/DD, and YYYYMMDD is the zero-padded 4+2+2 digits of the
\* day.
C11_SameKeysForADay ==
    DaysReturned =>
        /\ SameAcrossForms
        /\ \A i \in 1..Len(FormNames) : GregorianAsDay(i)

\* what holds of every day: the forms agree, and from the year 1000 on the
\* keys are the padded digits of the day
C11_SameKeysFromYear1000 ==
    DaysReturned =>
        /\ SameAcrossForms
        /\ call.day[1] >= 1000 =>
               \A i \in 1..Len(FormNames) : GregorianAsDay(i)

\* a day of the year 999 was enriched where %Y does not pad: YYYYMMDD has 7
\* characters, for every form
C11_Witness ==
    /\ DaysReturned
    /\ call.day = <<999, 12, 31>>
    /\ call.params = Dict(<<>>)
    /\ \A i \in 1..Len(FormNames) :
           Get(FormResult(i), "YYYYMMDD") = Str("9991231")

\* the date the call was given, as enrich_params reads it
GivenDate == coerce_date(Get(call.params, "date"))
DateUsed ==
    /\ EnrichReturned
    /\ Truthy(Get(call.params, "date"))
    /\ ~IsNone(GivenDate)

\* the ROC keys, each with what follows the year in its value
RocTail(key, dt) ==
    LET mm == Fmt(MonthOf(dt), 2)
        dd == Fmt(DayOf(dt), 2)
    IN  CASE key \in {"ROC_YEAR", "ROC_YY", "YYY", "YY"} -> ""
          [] key = "YYYMM" -> mm
          [] key = "YYY/MM" -> "/" \o mm
          [] key = "YYYMMDD" -> mm \o dd
          [] key = "YYY/MM/DD" -> "/" \o mm \o "/" \o dd

RocKeys ==
    { "ROC_YEAR", "ROC_YY", "YYY", "YY", "YYYMM", "YYY/MM", "YYYMMDD",
      "YYY/MM/DD" }

\* the year part of the value of a ROC key: what precedes the tail
RocYearPart(key, dt) ==
    LET v == Get(ret, key).s
    IN  SubSeq(v, 1, Len(v) - Len(RocTail(key, dt)))

AllDigits(s) == s # "" /\ \A i \in 1..Len(s) : IsDigit(CharAt(s, i))

\* C12: for a date of a year up to 1911 the result has no ROC key the caller
\* did not supply; for a later year it has all eight, and each one the
\* caller did not supply is a string whose year part is year - 1911,
\* followed by the month and day digits its name asks for.
C12_RocKeysFromYear1912 ==
    DateUsed =>
        /\ YearOf(GivenDate) <= 1911 =>
               \A key \in RocKeys : Has(ret, key) => Has(call.params, key)
        /\ YearOf(GivenDate) > 1911 =>
               \A key \in RocKeys :
                   /\ Has(ret, key)
                   /\ ~Has(call.params, key) =>
                          /\ IsStr(Get(ret, key))
                          /\ EndsWith(Get(ret, key).s, RocTail(key, GivenDate))
                          /\ AllDigits(RocYearPart(key, GivenDate))
                          /\ ToInt(RocYearPart(key, GivenDate))
                                 = YearOf(GivenDate) - 1911

\* 2024-09-05 gave YYY/MM = "113/09", and the last day of 1911 gave no ROC
\* key: the two cases, each in a call of its own
C12_Witness ==
    /\ DateUsed
    /\ \/ /\ Get(call.params, "date") = Str("2024-09-05")
          /\ ~Has(call.params, "YYY/MM")
          /\ Get(ret, "YYY/MM") = Str("113/09")
          /\ Get(ret, "YYYMMDD") = Str("1130905")
       \/ /\ Get(call.params, "date") = Str("1912-01-01")
          /\ call.params = Dict(<<KV("date", Str("1912-01-01"))>>)
          /\ Get(ret, "YYY") = Str("001")

\* the lengths of the ROC year keys the call derived
DerivedLen(key) == Len(Get(ret, key).s)

\* C13: for every date of a year after 1911 the derived ROC_YEAR has exactly
\* 3 characters and the derived ROC_YY and YY have exactly 2.
C13_RocYearWidths ==
    (DateUsed /\ YearOf(GivenDate) > 1911) =>
        /\ ~Has(call.params, "ROC_YEAR") => DerivedLen("ROC_YEAR") = 3
        /\ ~Has(call.params, "ROC_YY") => DerivedLen("ROC_YY") = 2
        /\ ~Has(call.params, "YY") => DerivedLen("YY") = 2

\* what holds instead: the widths are minimum widths, 3 and 2 characters
C13_RocYearMinWidths ==
    (DateUsed /\ YearOf(GivenDate) > 1911) =>
        /\ ~Has(call.params, "ROC_YEAR") => DerivedLen("ROC_YEAR") >= 3
        /\ ~Has(call.params, "ROC_YY") => DerivedLen("ROC_YY") >= 2
        /\ ~Has(call.params, "YY") => DerivedLen("YY") >= 2

\* 2024-09-05 is the ROC year 113: ROC_YY and YY have 3 characters
C13_Witness ==
    /\ DateUsed
    /\ Get(call.params, "date") = Str("2024-09-05")
    /\ ~Has(call.params, "ROC_YY")
    /\ Get(ret, "ROC_YY") = Str("113")
    /\ Get(ret, "YY") = Str("113")

-----------------------------------------------------------------------------
(* Properties of the headers of the request descriptor (Spec).             *)

Expanded == request_config # None

\* the headers of the two levels: the global http headers, and the entry's
\* after substitution
GlobalHeaders == GetOr(HttpDefaults, "headers", Dict(<<>>))
EntryHeaders ==
    apply_template(GetOr(call.entry.raw, "headers", Dict(<<>>)), enriched)
HeaderNames == Keys(GlobalHeaders) \cup Keys(EntryHeaders)

\* the mapping is the global headers overridden key by key by the entry's
MergedHeaders(out) ==
    /\ IsDict(out)
    /\ Keys(out) = HeaderNames
    /\ \A key \in HeaderNames :
           Get(out, key) = (IF Has(EntryHeaders, key)
                            THEN Get(EntryHeaders, key)
                            ELSE Get(GlobalHeaders, key))

\* C16: the descriptor expand returns always has headers, the global http
\* headers overridden key by key by the entry's substituted headers; with no
\* header on either level it is an empty mapping.
C16_HeadersAlwaysPresent ==
    Expanded =>
        /\ Has(request_config, "headers")
        /\ MergedHeaders(Get(request_config, "headers"))

\* C16, as the code has it: the descriptor has headers exactly when a level
\* declares a header, and then it is the global http headers overridden key
\* by key by the entry's substituted headers.
C16_HeadersWhenDeclared ==
    Expanded =>
        /\ Has(request_config, "headers") <=> HeaderNames # {}
        /\ Has(request_config, "headers") =>
               MergedHeaders(Get(request_config, "headers"))

\* both levels declare User-Agent: the descriptor has the entry's, with the
\* parameter substituted, and the entry's Accept
C16_Witness ==
    /\ Expanded
    /\ Get(GlobalHeaders, "User-Agent") = Str("tw")
    /\ Has(call.params, "stock_code")
    /\ Get(request_config, "headers")
           = Dict(<<KV("User-Agent", Str("tw/2330")),
                    KV("Accept", Str("text/csv"))>>)

-----------------------------------------------------------------------------
(* Properties of the catalog (SpecCatalog).                                *)

LoadReturned == catalog.state # "not-loaded"
Loaded == catalog.state = "loaded"

\* the last call looked up an id the catalog does not have
UnknownLookup ==
    /\ Loaded
    /\ call.fn = "get_entry"
    /\ ~Has(catalog.entries, call.id)

\* C14: looking up an id that is not in the loaded catalog raises a
\* condition of its own, which is not the plain KeyError of a mapping, and
\* returns no entry.
C14_UnknownIdIsDistinct ==
    UnknownLookup => ret.raised \notin {"", "KeyError"}

\* an id the document does not declare was looked up in a catalog that has
\* entries: the call raised KeyError
C14_Witness ==
    /\ UnknownLookup
    /\ call.id = "twse.unknown"
    /\ Has(catalog.entries, "twse.custom.unmapped")
    /\ ret.raised = "KeyError"

\* the document has no sources array
NoSourcesArray == ~IsDict(document) \/ ~IsList(Get(document, "sources"))

\* C15: for a document with no sources array load_catalog raises and builds
\* no Catalog.
C15_NoSourcesFailsLoad ==
    (LoadReturned /\ NoSourcesArray) => catalog.state = "failed"

\* a document with metadata and global_defaults but no sources was loaded:
\* the Catalog has no source and no entry
C15_Witness ==
    /\ Loaded
    /\ Has(document, "global_defaults")
    /\ ~Has(document, "sources")
    /\ catalog.defaults = SharedDefaults
    /\ catalog.sources = Dict(<<>>)
    /\ catalog.entries = Dict(<<>>)

\* C17: whatever expand and execute_entry calls were made, failed ones
\* included, the catalog is as load_catalog built it (the raw fields of every
\* entry, the sources, the shared global_defaults), and every expand(p) on an
\* entry gave what expand(p) gives on the catalog as loaded.
C17_CatalogReadOnly ==
    Loaded =>
        /\ catalog = load_catalog(document)
        /\ \A x \in expansions :
               x.result =
                   expand_outcome(entry_of(load_catalog(document), x.id),
                                  x.params)
        /\ \A x, y \in expansions :
               (x.id = y.id /\ x.params = y.params) => x.result = y.result

\* every entry was expanded with every parameter mapping, among them an
\* entry that overrides the shared retries and one that fails, and the last
\* call was an execute_entry whose Transport raised
C17_Witness ==
    /\ Loaded
    /\ catalog.defaults = SharedDefaults
    /\ Cardinality(expansions) = 6
    /\ \E x \in expansions :
           /\ x.id = "twse.exchangeReport.STOCK_DAY"
           /\ Get(x.result.value, "retries")
                  = Dict(<<KV("total", Num("5")), KV("backoff", Num("2"))>>)
    /\ \E x \in expansions : x.result.raised = "ValueError"
    /\ call.fn = "execute_entry"
    /\ ret.raised = "TransportError"

-----------------------------------------------------------------------------
(* Properties of resolve against template (SpecStorage).                   *)

\* resolve returned a path for an instrument-scope plan
InstrumentResolved ==
    /\ ResolveReturned
    /\ call.plan.scope = "instrument"
    /\ IsStr(ret)

\* the text of the template of the plan
TemplateText == template(call.plan, call.source_id).s

\* the template with the placeholder of the key replaced by the string form
\* of the value params gives it
Filled(text, key) ==
    IF IsNone(key) THEN text
    ELSE Replace(text, "{" \o key.s \o "}", StrOf(Get(call.params, key.s)))

\* the position of the symbol placeholder among the segments of the template
SymbolPosition ==
    CHOOSE i \in 1..Len(Split(TemplateText, "/")) :
        Split(TemplateText, "/")[i] = "{" \o call.plan.parameter_key.s \o "}"

\* C18: a path resolve returns for an instrument-scope plan is the template
\* with {parameter_key} and {derivative_key} replaced by the string forms of
\* the values: it has as many segments as the template, and the symbol
\* segment is where the template has its placeholder, also for an empty
\* string.
C18_ResolvedIsTemplateFilled ==
    InstrumentResolved =>
        /\ ret.s = Filled(Filled(TemplateText, call.plan.parameter_key),
                          call.plan.derivative_key)
        /\ Len(Split(ret.s, "/")) = Len(Split(TemplateText, "/"))
        /\ Split(ret.s, "/")[SymbolPosition]
               = StrOf(Get(call.params, call.plan.parameter_key.s))

\* the symbol is the empty string: the path resolve returned has no segment
\* for it, one segment fewer than the template
C18_Witness ==
    /\ InstrumentResolved
    /\ call.plan.parameter_key = Str("stock_code")
    /\ IsNone(call.plan.derivative_key)
    /\ call.plan.dataset = "ohlcv/daily"
    /\ Get(call.params, "stock_code") = Str("")
    /\ TemplateText = "twse/{stock_code}/spot/ohlcv/daily"
    /\ ret = Str("twse/spot/ohlcv/daily")

=============================================================================
